---- MODULE Spec2Model ----
(***************************************************************************)
(* A model of the session registry (SessionManager), of the requests that  *)
(* drive it (destroy, the navigate tool, the workflow executor's navigate  *)
(* step) and of the diagnostic collectors.                                 *)
(*                                                                         *)
(* JavaScript runs one request at a time and switches requests only at an  *)
(* await: every action below is the code that runs from one suspension     *)
(* point to the next.                                                      *)
(***************************************************************************)
EXTENDS Integers, Sequences, FiniteSets, TLC

\* ------------------------------------------------------------------ bounds
MaxSessions == 1
MaxIds == 2
MaxRefs == 2
MaxNavRefs == 1
MaxCollectors == 2
MaxPerKind == 1
MaxResources == 2
MaxTasks == 1
MaxCalls == 2
MaxN == 2
MaxEvents == 4
MaxChunk == 3
MaxAttached == 2
MaxForeign == 1
MaxEmits == 3
MaxDetach == 2
MaxSteps == 3
MaxNavEvents == 3
MaxHandlers == 3
MaxCleanups == 2
MaxKills == 2
MaxChildren == 2
MaxRequests == 3
MaxNow == 3

\* ------------------------------------------------------------------ strings
\* A string is a sequence of characters; a key is built by concatenation and
\* a session's keys are found by prefix, as in the source.
Digit == <<"1", "2", "3", "4", "5", "6">>
UUID(n) == <<Digit[n]>>
UnknownId == <<"9">>
Identifiers == {<<"A">>, <<"B">>}
Electron == <<"electron">>
Unknown == <<"unknown">>

Key(sessionId, identifier) == sessionId \o <<":">> \o identifier
\* A prefix that every key starts with.
PrefixOfAll(sessionId) == <<>>

Prefix(sessionId) == sessionId \o <<":">>
startsWith(key, prefix) ==
  /\ Len(key) >= Len(prefix)
  /\ SubSeq(key, 1, Len(prefix)) = prefix

\* ------------------------------------------------------------------ Map
\* A JavaScript Map: entries [k, v] in insertion order.
Absent == [id |-> 0]
IndexOf(m, k) ==
  IF \E i \in 1..Len(m) : m[i].k = k
  THEN CHOOSE i \in 1..Len(m) : m[i].k = k
  ELSE 0
MapHas(m, k) == IndexOf(m, k) # 0
MapGet(m, k) == IF MapHas(m, k) THEN m[IndexOf(m, k)].v ELSE Absent
MapSet(m, k, v) ==
  IF MapHas(m, k)
  THEN [m EXCEPT ![IndexOf(m, k)] = [k |-> k, v |-> v]]
  ELSE Append(m, [k |-> k, v |-> v])
RemoveAt(m, p) == [i \in 1..(Len(m) - 1) |-> IF i < p THEN m[i] ELSE m[i + 1]]
MapDelete(m, k) == IF MapHas(m, k) THEN RemoveAt(m, IndexOf(m, k)) ELSE m
MapKeys(m) == {m[i].k : i \in 1..Len(m)}
\* The values of the entries whose key starts with the session's prefix, in
\* insertion order (getPageRefs, get*Collectors).
RECURSIVE Scan(_, _)
Scan(m, prefix) ==
  IF m = <<>> THEN <<>>
  ELSE (IF startsWith(Head(m).k, prefix) THEN <<Head(m).v>> ELSE <<>>)
       \o Scan(Tail(m), prefix)
SeqRemove(s, x) ==
  IF \E i \in 1..Len(s) : s[i] = x
  THEN RemoveAt(s, CHOOSE i \in 1..Len(s) : s[i] = x)
  ELSE s
Range(s) == {s[i] : i \in 1..Len(s)}

CollectorKinds ==
  <<"consoleCollectors", "errorCollectors", "networkCollectors", "processCollectors">>
KindSet == Range(CollectorKinds)

TaskIds == 1..MaxTasks
\* The destroy calls that can be in progress together where calls overlap.
Calls == 1..MaxCalls

VARIABLES
  sessions,          \* SessionManager.sessions: the live session ids, in insertion order
  resources,         \* Session.resources of every session object ever created
  pageRefs,          \* SessionManager.pageRefs
  autoCaptures,      \* SessionManager.autoCaptures
  collectors,        \* the four collector Maps, by field name
  iters,             \* position of each destroy call's live pageRefs iterator
  tasks,             \* the destroy calls in flight: their locals and what they invoked
  navs,              \* the navigate tool's requests in flight
  flows,             \* the executeWorkflow calls in flight
  alloc,             \* how many sessions, refs, collectors, resources were created
  last,              \* the request step that ran last, and its outcome
  attached,          \* one collector instance: its kind, its maximum, whether it listens
  entries,           \* that collector's buffer
  pendingRequests,   \* the network collector's start times, by "method url"
  produced,          \* every entry a handler of that collector has pushed, in order
  listeners,         \* the listeners registered on a page and on a child's streams, in order
  cols,              \* the collectors attached to them: maximum, buffer, pending requests
  held,              \* an array a caller got from getEntries and still holds
  fired,             \* what happened last on the emitter side
  resolved,          \* what getActivePage returned to the request that called it last
  wf,                \* the run_workflow request: its steps, its position, its step results
  ret,               \* what the function called last was given and what it returned
  all,               \* destroyAll on shutdown: the ids it listed, its place among them, how it settled
  caps,              \* auto-capture: the navigation events of the page and the handler each started
  sd,                \* ShutdownManager: its flag, its handlers, its cleanup calls
  kp,                \* a child process, its process Resource's release and the killProcessTree call under way
  launch,            \* the children spawned by the launch tools and the launch request under way
  net                \* the network collector with a clock: the requests of the page, the pending-request table, the entries

regVars == <<sessions, resources, pageRefs, autoCaptures, collectors>>
reqVars == <<navs, flows>>
colVars == <<attached, entries, pendingRequests, produced>>
sysVars ==
  <<sessions, resources, pageRefs, autoCaptures, collectors, iters, tasks, navs, flows,
    alloc, last>>
emVars == <<listeners, cols, held, fired>>
runVars == <<resolved, wf>>
callVars == <<ret>>
shutVars == <<all>>
capVars == <<caps>>
sdVars == <<sd>>
killVars == <<kp>>
launchVars == <<launch>>
netVars == <<net>>
vars ==
  <<sessions, resources, pageRefs, autoCaptures, collectors, iters, tasks, navs, flows,
    alloc, last, attached, entries, pendingRequests, produced,
    listeners, cols, held, fired,
    resolved, wf,
    ret,
    all,
    caps,
    sd,
    kp,
    launch,
    net>>

\* The registry's fields as one record, for the operators that thread it.
Registry ==
  [sessions |-> sessions, pageRefs |-> pageRefs, autoCaptures |-> autoCaptures,
   collectors |-> collectors, iters |-> iters]
Install(r) ==
  /\ sessions' = r.sessions
  /\ pageRefs' = r.pageRefs
  /\ autoCaptures' = r.autoCaptures
  /\ collectors' = r.collectors
  /\ iters' = r.iters

\* n: in how many of the five Maps the step found an entry under its old key.
Event(op, sid, a, b, n) == [op |-> op, sid |-> sid, a |-> a, b |-> b, n |-> n]
NoStr == <<>>
Other == Event("other", NoStr, NoStr, NoStr, 0)

\* Map.delete on pageRefs: a live iterator that already passed the deleted
\* entry keeps its place relative to the remaining entries.
pageRefsDelete(r, key) ==
  LET p == IndexOf(r.pageRefs, key) IN
  IF p = 0 THEN r
  ELSE [r EXCEPT !.pageRefs = RemoveAt(@, p),
                 !.iters = [t \in Calls |-> IF @[t] >= p THEN @[t] - 1 ELSE @[t]]]


\* ------------------------------------------------------------------ registry
get(id) == IF id \in Range(sessions) THEN id ELSE NoStr
\* A listing of every id create has returned, ended or not.
listCreated == [n \in 1..alloc.sessions |-> UUID(n)]

list == sessions
getPageRef(r, sessionId, identifier) == MapGet(r.pageRefs, Key(sessionId, identifier))
getPageRefs(r, sessionId) == Scan(r.pageRefs, Prefix(sessionId))
getCollector(r, kind, sessionId, identifier) ==
  MapGet(r.collectors[kind], Key(sessionId, identifier))
getCollectors(r, kind, sessionId) == Scan(r.collectors[kind], Prefix(sessionId))
getAutoCapture(r, sessionId) == MapGet(r.autoCaptures, sessionId)

removePageRef(r, sessionId, identifier) == pageRefsDelete(r, Key(sessionId, identifier))

\* A move without the presence test: what "if (collector)" rules out.
rekeyMapUnguarded(m, oldKey, newKey) ==
  MapSet(MapDelete(m, oldKey), newKey, MapGet(m, oldKey))

\* One Map of rekeyIdentifier: get, and if present delete the old key and set
\* the new one.
rekeyMap(m, oldKey, newKey) ==
  IF MapHas(m, oldKey)
  THEN MapSet(MapDelete(m, oldKey), newKey, MapGet(m, oldKey))
  ELSE m

\* A re-keying that stops after the page reference.
rekeyPageRefOnly(r, sessionId, oldIdentifier, newIdentifier) ==
  LET oldKey == Key(sessionId, oldIdentifier)
      newKey == Key(sessionId, newIdentifier)
      pageRef == MapGet(r.pageRefs, oldKey)
  IN IF pageRef.id # 0
     THEN [pageRefsDelete(r, oldKey) EXCEPT !.pageRefs = MapSet(@, newKey, pageRef)]
     ELSE r

rekeyIdentifier(r, sessionId, oldIdentifier, newIdentifier) ==
  LET oldKey == Key(sessionId, oldIdentifier)
      newKey == Key(sessionId, newIdentifier)
      pageRef == MapGet(r.pageRefs, oldKey)
      r1 == IF pageRef.id # 0
            THEN [pageRefsDelete(r, oldKey) EXCEPT !.pageRefs = MapSet(@, newKey, pageRef)]
            ELSE r
  IN [r1 EXCEPT !.collectors =
        [kind \in KindSet |-> rekeyMap(r.collectors[kind], oldKey, newKey)]]

\* ------------------------------------------------------------------ listeners
\* The listeners of an emitter (a page, a child's stdout and stderr), in the
\* order of their registration.
Listener(event, fn) == [event |-> event, fn |-> fn]

\* The on(...) calls of the four attach functions.
Installed(kind) ==
  CASE kind = "console" -> <<Listener("console", "handler")>>
    [] kind = "error" -> <<Listener("pageerror", "errorHandler"), Listener("crash", "crashHandler")>>
    [] kind = "network" -> <<Listener("request", "requestHandler"),
                             Listener("response", "responseHandler"),
                             Listener("requestfailed", "failedHandler")>>
    [] kind = "process" -> <<Listener("stdout", "stdoutHandler"), Listener("stderr", "stderrHandler")>>

\* A detach that forgets every handler but the first.
RemovedFirstOnly(kind) == <<Installed(kind)[1]>>

\* The off(...) calls of the four detach functions.
Removed(kind) ==
  CASE kind = "console" -> <<Listener("console", "handler")>>
    [] kind = "error" -> <<Listener("pageerror", "errorHandler"), Listener("crash", "crashHandler")>>
    [] kind = "network" -> <<Listener("request", "requestHandler"),
                             Listener("response", "responseHandler"),
                             Listener("requestfailed", "failedHandler")>>
    [] kind = "process" -> <<Listener("stdout", "stdoutHandler"), Listener("stderr", "stderrHandler")>>

\* emitter.on(event, fn): the handler closure is told apart by its owner.
on(ls, owner, l) == Append(ls, [event |-> l.event, owner |-> owner, fn |-> l.fn])

\* An off that clears the event of every listener.
offAll(ls, owner, l) == SelectSeq(ls, LAMBDA x : x.event # l.event)

\* emitter.off(event, fn): removes that handler, the instance registered
\* last; nothing when it is not registered.
off(ls, owner, l) ==
  LET at == {i \in DOMAIN ls : ls[i] = [event |-> l.event, owner |-> owner, fn |-> l.fn]} IN
  IF at = {} THEN ls ELSE RemoveAt(ls, CHOOSE i \in at : \A j \in at : j <= i)

RECURSIVE onEach(_, _, _)
onEach(ls, owner, todo) ==
  IF todo = <<>> THEN ls ELSE onEach(on(ls, owner, Head(todo)), owner, Tail(todo))

RECURSIVE offEach(_, _, _)
offEach(ls, owner, todo) ==
  IF todo = <<>> THEN ls ELSE offEach(off(ls, owner, Head(todo)), owner, Tail(todo))

detach(ls, owner, kind) == offEach(ls, owner, Removed(kind))

\* collector.detach() of attached collectors, one after the other: the off
\* calls of each on the emitter it listens to.
RECURSIVE detachAll(_, _, _)
detachAll(ls, cs, ids) ==
  IF ids = <<>> THEN [listeners |-> ls, cols |-> cs]
  ELSE LET id == Head(ids) IN
       detachAll(detach(ls, id, cs[id].kind),
                 [cs EXCEPT ![id].detached = @ + 1,
                            ![id].atDetach = IF cs[id].detached = 0 THEN cs[id].entries ELSE @],
                 Tail(ids))

\* ------------------------------------------------------------------ destroy
IdleTask ==
  [pc |-> "idle", sid |-> NoStr, live |-> FALSE, curKey |-> NoStr, curRef |-> Absent, ri |-> 0,
   result |-> "none", had |-> {}, failed |-> {}, closed |-> <<>>, detached |-> <<>>, off |-> <<>>,
   released |-> <<>>]

\* The ids of the collectors keyed under a session, over the four Maps.
CollectorsUnder(cs, sessionId) ==
  UNION {{c.id : c \in Range(Scan(cs[kind], Prefix(sessionId)))} : kind \in KindSet}

\* A resource loop that ends at a resource registered while destroy was
\* suspended, as a loop over a copy of the list would.
releaseLoopOverCopy(M) ==
  LET res == resources[M.tk.sid] IN
  IF /\ M.tk.ri < Len(res)
     /\ ~(ret.op = "addResource" /\ ret.arg.resource.id = res[M.tk.ri + 1].id)
  THEN [M EXCEPT !.tk.pc = "cleanup", !.tk.ri = @ + 1,
                 !.tk.released = Append(@, res[M.tk.ri + 1].id)]
  ELSE [M EXCEPT !.r.sessions = SeqRemove(@, M.tk.sid),
                 !.tk.pc = "done", !.tk.result = "resolved"]

\* A resource loop after which destroy returns with the session still
\* registered.
releaseLoopKeepsSession(M) ==
  LET res == resources[M.tk.sid] IN
  IF M.tk.ri < Len(res)
  THEN [M EXCEPT !.tk.pc = "cleanup", !.tk.ri = @ + 1,
                 !.tk.released = Append(@, res[M.tk.ri + 1].id)]
  ELSE [M EXCEPT !.tk.pc = "done", !.tk.result = "resolved"]

\* destroy, the resource loop: call the next cleanup and suspend on it, or,
\* past the last resource, delete the session and return.
releaseLoop(M) ==
  LET res == resources[M.tk.sid] IN
  IF M.tk.ri < Len(res)
  THEN [M EXCEPT !.tk.pc = "cleanup", !.tk.ri = @ + 1,
                 !.tk.released = Append(@, res[M.tk.ri + 1].id)]
  ELSE [M EXCEPT !.r.sessions = SeqRemove(@, M.tk.sid),
                 !.tk.pc = "done", !.tk.result = "resolved"]

\* destroy, the four collector loops and the auto-capture delete. detach is
\* called outside any try: a detach that throws ends destroy right there.
\* bad: the collectors whose detach throws when called. The detach of a
\* collector attached to an emitter removes its listeners (tk.off notes whose).
RECURSIVE detachLoop(_, _, _, _)
detachLoop(M, bad, k, i) ==
  IF k > Len(CollectorKinds)
  THEN releaseLoop([M EXCEPT !.r.autoCaptures = MapDelete(@, M.tk.sid)])
  ELSE LET kind == CollectorKinds[k]
           m == M.r.collectors[kind]
       IN IF i > Len(m) THEN detachLoop(M, bad, k + 1, 1)
          ELSE IF ~startsWith(m[i].k, Prefix(M.tk.sid)) THEN detachLoop(M, bad, k, i + 1)
          ELSE LET M1 == [M EXCEPT !.tk.detached = Append(@, m[i].v.id)] IN
               IF m[i].v.id \in bad
               THEN [M1 EXCEPT !.tk.pc = "done", !.tk.result = "rejected",
                               !.tk.failed = @ \cup {<<"detach", m[i].v.id>>}]
               ELSE detachLoop([M1 EXCEPT !.r.collectors[kind] = MapDelete(@, m[i].k),
                                          !.tk.off = IF m[i].v.col # 0 THEN Append(@, m[i].v.col)
                                                     ELSE @],
                               bad, k, i)

detachPhase(M, bad) == detachLoop(M, bad, 1, 1)

\* destroy, the page-reference loop, from the iterator's place t to the next
\* await (a close) or into the later phases.
RECURSIVE pageLoop(_, _, _)
pageLoop(M, t, bad) ==
  LET i == M.r.iters[t] + 1 IN
  IF i > Len(M.r.pageRefs) THEN detachPhase([M EXCEPT !.r.iters[t] = 0], bad)
  ELSE LET e == M.r.pageRefs[i]
           M1 == [M EXCEPT !.r.iters[t] = i]
       IN IF ~startsWith(e.k, Prefix(M.tk.sid)) THEN pageLoop(M1, t, bad)
          ELSE IF e.v.hasContext
          THEN [M1 EXCEPT !.tk.pc = "contextClose", !.tk.curKey = e.k, !.tk.curRef = e.v,
                          !.tk.closed = Append(@, <<e.v.id, "context">>)]
          ELSE IF e.v.hasBrowser
          THEN [M1 EXCEPT !.tk.pc = "browserClose", !.tk.curKey = e.k, !.tk.curRef = e.v,
                          !.tk.closed = Append(@, <<e.v.id, "browser">>)]
          ELSE pageLoop([M1 EXCEPT !.r = pageRefsDelete(@, e.k)], t, bad)

\* After the try/catch of one page reference: delete its key, go on.
afterClose(M, t, bad) ==
  pageLoop([M EXCEPT !.r = pageRefsDelete(@, M.tk.curKey),
                     !.tk.curKey = NoStr, !.tk.curRef = Absent], t, bad)


\* ------------------------------------------------------------------ actions
AllIds == {UUID(n) : n \in 1..MaxIds}
CreatedIds == {UUID(n) : n \in 1..alloc.sessions}
\* The ids a caller can name: those create has returned, and one it never did.
KnownArgs == CreatedIds \cup {UnknownId}
CaptureData == {1}
Total(f) == LET RECURSIVE Sum(_)
                Sum(S) == IF S = {} THEN 0
                          ELSE LET x == CHOOSE y \in S : TRUE IN f[x] + Sum(S \ {x})
            IN Sum(DOMAIN f)

ColIds == 1..MaxAttached
NoCollector ==
  [kind |-> "none", maxEntries |-> 0, entries |-> <<>>, pendingRequests |-> <<>>,
   produced |-> <<>>, detached |-> 0, atDetach |-> <<>>]
NoArray == [from |-> 0, alias |-> FALSE, arr |-> <<>>, was |-> <<>>]
Quiet == [op |-> "none", id |-> 0, event |-> "none", arg |-> <<>>, to |-> <<>>]

NotAttached == [kind |-> "none", maxEntries |-> 0, listening |-> FALSE]
IdleNav ==
  [pc |-> "idle", sid |-> NoStr, cur |-> NoStr, type |-> NoStr, url |-> NoStr,
   result |-> "none"]
IdleFlow ==
  [pc |-> "idle", sid |-> NoStr, pageIdentifier |-> NoStr, url |-> NoStr, result |-> "none"]
NotFound == [success |-> FALSE, ref |-> Absent, identifier |-> NoStr, available |-> <<>>]
NotResolved == [sid |-> NoStr, pid |-> NoStr, result |-> NotFound]
NoCall == [op |-> "none", arg |-> <<>>, value |-> <<>>]
\* A handler of framenavigated: where it is, which navigation of the page
\* started it, and which navigation's page its screenshot shows. page: the
\* navigations of the page so far, the latest being what page.url() and a
\* screenshot show; navs: the handlers started; stored: the handlers that
\* called setAutoCapture, in order.
NoHandler == [pc |-> "none", nav |-> 0, shot |-> 0]
NoCaptures ==
  [sid |-> NoStr, page |-> 0, navs |-> 0, handlers |-> [n \in 1..MaxNavEvents |-> NoHandler],
   stored |-> <<>>, overlapped |-> FALSE, listening |-> FALSE]
\* Besides the locals of destroyAll: the resources whose cleanup its destroy
\* calls have called, and the allocation counters when it was called.
NoShutdown ==
  [pc |-> "idle", ids |-> <<>>, i |-> 0, result |-> "none", released |-> <<>>,
   began |-> [sessions |-> 0, refs |-> 0, resources |-> 0,
              collectors |-> [kind \in KindSet |-> 0]]]
NoResult == [steps |-> <<>>, totalSteps |-> 0, completedSteps |-> 0, failedStep |-> -1]
\* Besides the locals of the handler and of executeWorkflow: which steps were
\* dispatched, how each settled, and how many entries the collectors had
\* pushed when the workflow and when the current step began.
IdleRun ==
  [pc |-> "idle", sid |-> NoStr, pageIdentifier |-> NoStr, steps |-> <<>>, i |-> 0,
   results |-> <<>>, dispatched |-> <<>>, outcome |-> "none", result |-> NoResult,
   lastConsoleCount |-> 0, lastErrorCount |-> 0, consoleDelta |-> <<>>, errorDelta |-> <<>>,
   consoleDuring |-> <<>>, errorDuring |-> <<>>,
   since |-> [id \in ColIds |-> 0], before |-> 0, outcomes |-> <<>>, threw |-> "ok",
   registered |-> <<>>]

\* A ShutdownManager as constructed: no handler, the flag down, no cleanup
\* call made. A handler is [invoked, state]: how many times it was called and
\* the state of the promise its last call returned.
NoCleanup == [isShuttingDown |-> FALSE, handlers |-> <<>>, calls |-> 0, first |-> 0, pc |-> "idle"]

\* A ChildProcess as spawn returns it when the process started: a pid, no
\* exit code and no signal code, written as they print. alive is the process
\* itself.
Running == [pid |-> "1", exitCode |-> "null", signalCode |-> "null", alive |-> TRUE]

\* No release and no killProcessTree call yet. pc is the promise of
\* killProcessTree, release the promise of the Resource's cleanup; treeKills
\* counts the calls of treeKill, killed the live processes they ended.
NoKill == [child |-> Running, pc |-> "idle", timer |-> "none", callback |-> "none",
           release |-> "idle", calls |-> 0, treeKills |-> 0, killed |-> 0]

\* No child spawned, no launch request under way. A child is [tool, sid,
\* running, exitCode, resource, returned]: resource is the id of the
\* Resource registered for it, 0 when there is none; returned tells that the
\* request that spawned it has returned.
NoLaunch == [children |-> <<>>, pc |-> "idle", tool |-> "none", sid |-> NoStr, result |-> "none"]

\* A page with no request made and no network collector attached. now is
\* Date.now(); a request is [key, start, observed, state, crowded].
NoTraffic == [attached |-> FALSE, now |-> 0, requests |-> <<>>, pendingRequests |-> <<>>,
              entries |-> <<>>]

Init ==
  /\ sessions = <<>>
  /\ resources = [id \in AllIds |-> <<>>]
  /\ pageRefs = <<>>
  /\ autoCaptures = <<>>
  /\ collectors = [kind \in KindSet |-> <<>>]
  /\ iters = [t \in Calls |-> 0]
  /\ tasks = [t \in Calls |-> IdleTask]
  /\ navs = [t \in Calls |-> IdleNav]
  /\ flows = [t \in Calls |-> IdleFlow]
  /\ alloc = [sessions |-> 0, refs |-> 0, resources |-> 0,
              collectors |-> [kind \in KindSet |-> 0]]
  /\ last = Other
  /\ attached = NotAttached
  /\ entries = <<>>
  /\ pendingRequests = <<>>
  /\ produced = <<>>
  /\ listeners = <<>>
  /\ cols = [id \in 1..MaxAttached |-> NoCollector]
  /\ held = NoArray
  /\ fired = Quiet
  /\ resolved = NotResolved
  /\ wf = IdleRun
  /\ ret = NoCall
  /\ all = NoShutdown
  /\ caps = NoCaptures
  /\ sd = NoCleanup
  /\ kp = NoKill
  /\ launch = NoLaunch
  /\ net = NoTraffic

CreateWithin(limit) ==
  /\ alloc.sessions < limit
  /\ LET id == UUID(alloc.sessions + 1) IN
     /\ sessions' = Append(sessions, id)
     /\ resources' = [resources EXCEPT ![id] = <<>>]
  /\ alloc' = [alloc EXCEPT !.sessions = @ + 1]
  /\ last' = Other
  /\ UNCHANGED <<pageRefs, autoCaptures, collectors, iters, tasks, reqVars>>
  /\ UNCHANGED colVars
  /\ UNCHANGED emVars
  /\ UNCHANGED runVars
  /\ UNCHANGED callVars
  /\ UNCHANGED shutVars
  /\ UNCHANGED capVars
  /\ UNCHANGED sdVars
  /\ UNCHANGED killVars
  /\ UNCHANGED launchVars
  /\ UNCHANGED netVars

Create == CreateWithin(MaxSessions)

\* A registry that opens a resource list for a session it does not know.
addResourceToAny(sessionId, resource) ==
  [threw |-> FALSE,
   resources |-> IF sessionId \in DOMAIN resources
                 THEN [resources EXCEPT ![sessionId] = Append(@, resource)]
                 ELSE resources]

addResource(sessionId, resource) ==
  IF get(sessionId) = NoStr THEN [threw |-> TRUE, resources |-> resources]
  ELSE [threw |-> FALSE, resources |-> [resources EXCEPT ![sessionId] = Append(@, resource)]]

AddResource(sessionId) ==
  /\ alloc.resources < MaxResources
  /\ LET done == addResource(sessionId, [id |-> alloc.resources + 1]) IN
     /\ resources' = done.resources
     /\ alloc' = IF done.threw THEN alloc ELSE [alloc EXCEPT !.resources = @ + 1]
  /\ last' = Other
  /\ UNCHANGED <<sessions, pageRefs, autoCaptures, collectors, iters, tasks, reqVars>>
  /\ UNCHANGED colVars
  /\ UNCHANGED emVars
  /\ UNCHANGED runVars
  /\ UNCHANGED callVars
  /\ UNCHANGED shutVars
  /\ UNCHANGED capVars
  /\ UNCHANGED sdVars
  /\ UNCHANGED killVars
  /\ UNCHANGED launchVars
  /\ UNCHANGED netVars

\* A page reference as the tools build it: a web page under its URL, with the
\* browser/context handles it owns, or the Electron window under "electron".
NewRef(type, identifier, hasContext, hasBrowser) ==
  [id |-> alloc.refs + 1, type |-> type,
   hasContext |-> hasContext, hasBrowser |-> hasBrowser,
   url |-> IF type = "web" THEN identifier ELSE NoStr]

SetPageRef(sessionId, identifier, type, hasContext, hasBrowser, limit) ==
  /\ alloc.refs < limit
  /\ IF get(sessionId) = NoStr
     THEN UNCHANGED <<pageRefs, alloc>>
     ELSE /\ pageRefs' = MapSet(pageRefs, Key(sessionId, identifier),
                                NewRef(type, identifier, hasContext, hasBrowser))
          /\ alloc' = [alloc EXCEPT !.refs = @ + 1]
  /\ last' = Other
  /\ UNCHANGED <<sessions, resources, autoCaptures, collectors, iters, tasks, reqVars>>
  /\ UNCHANGED colVars
  /\ UNCHANGED emVars
  /\ UNCHANGED runVars
  /\ UNCHANGED callVars
  /\ UNCHANGED shutVars
  /\ UNCHANGED capVars
  /\ UNCHANGED sdVars
  /\ UNCHANGED killVars
  /\ UNCHANGED launchVars
  /\ UNCHANGED netVars

RemovePageRef(sessionId, identifier) ==
  /\ Install(removePageRef(Registry, sessionId, identifier))
  /\ last' = Other
  /\ UNCHANGED <<resources, tasks, reqVars, alloc>>
  /\ UNCHANGED colVars
  /\ UNCHANGED emVars
  /\ UNCHANGED runVars
  /\ UNCHANGED callVars
  /\ UNCHANGED shutVars
  /\ UNCHANGED capVars
  /\ UNCHANGED sdVars
  /\ UNCHANGED killVars
  /\ UNCHANGED launchVars
  /\ UNCHANGED netVars

\* In how many of the five Maps a key is present.
Present(r, key) ==
  (IF MapHas(r.pageRefs, key) THEN 1 ELSE 0)
  + Cardinality({kind \in KindSet : MapHas(r.collectors[kind], key)})

RekeyIdentifier(sessionId, oldIdentifier, newIdentifier) ==
  /\ Install(rekeyIdentifier(Registry, sessionId, oldIdentifier, newIdentifier))
  /\ last' = Event("rekeyIdentifier", sessionId, oldIdentifier, newIdentifier,
                   Present(Registry, Key(sessionId, oldIdentifier)))
  /\ UNCHANGED <<resources, tasks, reqVars, alloc>>
  /\ UNCHANGED colVars
  /\ UNCHANGED emVars
  /\ UNCHANGED runVars
  /\ UNCHANGED callVars
  /\ UNCHANGED shutVars
  /\ UNCHANGED capVars
  /\ UNCHANGED sdVars
  /\ UNCHANGED killVars
  /\ UNCHANGED launchVars
  /\ UNCHANGED netVars

SetAutoCapture(sessionId, data) ==
  /\ autoCaptures' = MapSet(autoCaptures, sessionId, [id |-> data])
  /\ last' = Other
  /\ UNCHANGED <<sessions, resources, pageRefs, collectors, iters, tasks, reqVars, alloc>>
  /\ UNCHANGED colVars
  /\ UNCHANGED emVars
  /\ UNCHANGED runVars
  /\ UNCHANGED callVars
  /\ UNCHANGED shutVars
  /\ UNCHANGED capVars
  /\ UNCHANGED sdVars
  /\ UNCHANGED killVars
  /\ UNCHANGED launchVars
  /\ UNCHANGED netVars

\* set*Collector, with a collector that was just attached to the page
\* registered under the same key (page 0: to none, or to a process). A
\* collector object is named by its kind and its number among that kind's.
SetCollector(kind, sessionId, identifier, total, perKind) ==
  /\ Total(alloc.collectors) < total
  /\ alloc.collectors[kind] < perKind
  /\ collectors' = [collectors EXCEPT ![kind] =
                      MapSet(@, Key(sessionId, identifier),
                             [id |-> <<kind, alloc.collectors[kind] + 1>>,
                              page |-> MapGet(pageRefs, Key(sessionId, identifier)).id,
                              col |-> 0])]
  /\ alloc' = [alloc EXCEPT !.collectors[kind] = @ + 1]
  /\ last' = Other
  /\ UNCHANGED <<sessions, resources, pageRefs, autoCaptures, iters, tasks, reqVars>>
  /\ UNCHANGED colVars
  /\ UNCHANGED emVars
  /\ UNCHANGED runVars
  /\ UNCHANGED callVars
  /\ UNCHANGED shutVars
  /\ UNCHANGED capVars
  /\ UNCHANGED sdVars
  /\ UNCHANGED killVars
  /\ UNCHANGED launchVars
  /\ UNCHANGED netVars

\* A destroy that would sweep for every id create ever returned, live or
\* not: what the early return of destroy rules out.
destroyKnownId(M, t, bad) ==
  IF M.tk.sid \notin AllIds
  THEN [M EXCEPT !.tk.pc = "done", !.tk.result = "resolved"]
  ELSE pageLoop(M, t, bad)

\* destroy(sessionId), up to its first await or its return.
destroyBegin(M, t, bad) ==
  IF M.tk.sid \notin Range(M.r.sessions)
  THEN [M EXCEPT !.tk.pc = "done", !.tk.result = "resolved"]
  ELSE pageLoop(M, t, bad)

\* The registry and the call's locals as the run left them, and the listeners
\* that the detach calls of this run removed.
Finish(M, t) ==
  /\ Install(M.r)
  /\ tasks' = [tasks EXCEPT ![t] = M.tk]
  /\ last' = Other
  /\ LET before == IF tasks[t].pc \in {"idle", "done"} THEN 0 ELSE Len(tasks[t].off)
         now == SubSeq(M.tk.off, before + 1, Len(M.tk.off))
         em == detachAll(listeners, cols, now)
     IN /\ listeners' = em.listeners
        /\ cols' = em.cols
        /\ fired' = IF now = <<>> THEN fired
                    ELSE [Quiet EXCEPT !.op = "detach", !.id = now[Len(now)]]
  /\ UNCHANGED held
  /\ UNCHANGED <<resources, reqVars, alloc>>

\* Which collectors' detach throws when called: any of those the registry holds.
BadSets == SUBSET UNION {{e.v.id : e \in Range(collectors[kind])} : kind \in KindSet}

Destroy(t, sessionId, bad) ==
  /\ tasks[t].pc \in {"idle", "done"}
  /\ Finish(destroyBegin([r |-> Registry,
                          tk |-> [IdleTask EXCEPT !.sid = sessionId,
                                    !.live = get(sessionId) # NoStr,
                                    !.had = CollectorsUnder(collectors, sessionId)]],
                         t, bad), t)
  /\ UNCHANGED colVars
  /\ UNCHANGED runVars
  /\ UNCHANGED callVars
  /\ UNCHANGED shutVars
  /\ UNCHANGED capVars
  /\ UNCHANGED sdVars
  /\ UNCHANGED killVars
  /\ UNCHANGED launchVars
  /\ UNCHANGED netVars

\* browserContext.close() settled.
ContextClosed(t, ok, bad) ==
  /\ tasks[t].pc = "contextClose"
  /\ LET M == [r |-> Registry,
               tk |-> [tasks[t] EXCEPT !.failed =
                         IF ok THEN @ ELSE @ \cup {<<"context", tasks[t].curRef.id>>}]] IN
     IF ok /\ M.tk.curRef.hasBrowser
     THEN Finish([M EXCEPT !.tk.pc = "browserClose",
                           !.tk.closed = Append(@, <<M.tk.curRef.id, "browser">>)], t)
     ELSE Finish(afterClose(M, t, bad), t)
  /\ UNCHANGED colVars
  /\ UNCHANGED runVars
  /\ UNCHANGED callVars
  /\ UNCHANGED shutVars
  /\ UNCHANGED capVars
  /\ UNCHANGED sdVars
  /\ UNCHANGED killVars
  /\ UNCHANGED launchVars
  /\ UNCHANGED netVars

\* browser.close() settled.
BrowserClosed(t, ok, bad) ==
  /\ tasks[t].pc = "browserClose"
  /\ Finish(afterClose([r |-> Registry,
                        tk |-> [tasks[t] EXCEPT !.failed =
                                  IF ok THEN @ ELSE @ \cup {<<"browser", tasks[t].curRef.id>>}]],
                       t, bad), t)
  /\ UNCHANGED colVars
  /\ UNCHANGED runVars
  /\ UNCHANGED callVars
  /\ UNCHANGED shutVars
  /\ UNCHANGED capVars
  /\ UNCHANGED sdVars
  /\ UNCHANGED killVars
  /\ UNCHANGED launchVars
  /\ UNCHANGED netVars

\* resource.cleanup() settled: resolved or rejected, the loop goes on.
CleanupSettled(t, ok) ==
  /\ tasks[t].pc = "cleanup"
  /\ Finish(releaseLoop([r |-> Registry,
                         tk |-> [tasks[t] EXCEPT !.failed =
                                   IF ok THEN @
                                   ELSE @ \cup {<<"cleanup", tasks[t].released[Len(tasks[t].released)]>>}]]),
            t)
  /\ UNCHANGED colVars
  /\ UNCHANGED runVars
  /\ UNCHANGED callVars
  /\ UNCHANGED shutVars
  /\ UNCHANGED capVars
  /\ UNCHANGED sdVars
  /\ UNCHANGED killVars
  /\ UNCHANGED launchVars
  /\ UNCHANGED netVars

\* The collector kinds the destroy specification registers: the first and the
\* last of the four Maps that destroy sweeps.
SweptKinds == {"consoleCollectors", "processCollectors"}

Next ==
  \/ Create
  \/ \E sid \in KnownArgs : AddResource(sid)
  \/ \E sid \in KnownArgs, ident \in Identifiers, hc \in BOOLEAN, hb \in BOOLEAN :
       (hb => hc) /\ SetPageRef(sid, ident, "web", hc, hb, MaxRefs)
  \/ \E sid \in CreatedIds, d \in CaptureData : SetAutoCapture(sid, d)
  \/ \E kind \in SweptKinds, sid \in CreatedIds, ident \in Identifiers :
       SetCollector(kind, sid, ident, MaxCollectors, MaxCollectors)
  \/ \E t \in TaskIds, sid \in KnownArgs, bad \in BadSets : Destroy(t, sid, bad)
  \/ \E t \in TaskIds, ok \in BOOLEAN, bad \in BadSets : ContextClosed(t, ok, bad)
  \/ \E t \in TaskIds, ok \in BOOLEAN, bad \in BadSets : BrowserClosed(t, ok, bad)
  \/ \E t \in TaskIds, ok \in BOOLEAN : CleanupSettled(t, ok)

Spec == Init /\ [][Next]_vars

\* addResource with what the caller gets back: nothing, or the error thrown.
AddResourceCall(sessionId) ==
  /\ alloc.resources < MaxResources
  /\ LET resource == [id |-> alloc.resources + 1]
         done == addResource(sessionId, resource)
     IN /\ resources' = done.resources
        /\ alloc' = IF done.threw THEN alloc ELSE [alloc EXCEPT !.resources = @ + 1]
        /\ ret' = [op |-> "addResource",
                   arg |-> [sessionId |-> sessionId, resource |-> resource],
                   value |-> IF done.threw THEN <<"Session not found: ">> \o sessionId
                             ELSE <<>>]
  /\ last' = Other
  /\ UNCHANGED <<sessions, pageRefs, autoCaptures, collectors, iters, tasks, reqVars>>
  /\ UNCHANGED <<colVars, emVars, runVars>>
  /\ UNCHANGED shutVars
  /\ UNCHANGED capVars
  /\ UNCHANGED sdVars
  /\ UNCHANGED killVars
  /\ UNCHANGED launchVars
  /\ UNCHANGED netVars

\* Resources registered before, while and after a session is destroyed.
NextResources ==
  \/ Create
  \/ \E sid \in KnownArgs : AddResourceCall(sid)
  \/ \E sid \in KnownArgs, ident \in Identifiers, hc \in BOOLEAN, hb \in BOOLEAN :
       SetPageRef(sid, ident, "web", hc, hb, MaxRefs)
  \/ \E t \in TaskIds, sid \in KnownArgs, bad \in BadSets : Destroy(t, sid, bad)
  \/ \E t \in TaskIds, ok \in BOOLEAN, bad \in BadSets : ContextClosed(t, ok, bad)
  \/ \E t \in TaskIds, ok \in BOOLEAN, bad \in BadSets : BrowserClosed(t, ok, bad)
  \/ \E t \in TaskIds, ok \in BOOLEAN : CleanupSettled(t, ok)

SpecResources == Init /\ [][NextResources]_vars

\* ------------------------------------------------------------------ auto-capture
InFlight(n) == caps.handlers[n].pc \in {"load", "screenshot", "optimize"}

\* setupAutoCapture(page, sessionId, sessionManager): the handler is put on
\* the page; neither the session nor the registry is consulted.
SetupAutoCapture(sessionId) ==
  /\ ~caps.listening
  /\ caps.sid \in {NoStr, sessionId}
  /\ caps' = [caps EXCEPT !.sid = sessionId, !.listening = TRUE]
  /\ UNCHANGED <<sysVars, colVars, emVars, runVars, callVars, shutVars>>
  /\ UNCHANGED sdVars
  /\ UNCHANGED killVars
  /\ UNCHANGED launchVars
  /\ UNCHANGED netVars

\* The function setupAutoCapture returned: page.off.
RemoveAutoCapture ==
  /\ caps.listening
  /\ caps' = [caps EXCEPT !.listening = FALSE]
  /\ UNCHANGED <<sysVars, colVars, emVars, runVars, callVars, shutVars>>
  /\ UNCHANGED sdVars
  /\ UNCHANGED killVars
  /\ UNCHANGED launchVars
  /\ UNCHANGED netVars

\* The page navigates its main frame, listened to or not: page.url() and
\* what a screenshot shows are those of this navigation from now on. While
\* the listener is on the page, whatever the registry holds for the session,
\* framenavigated starts a handler, which suspends in
\* page.waitForLoadState("load"); after page.off no handler starts.
FrameNavigated(sessionId) ==
  /\ caps.page < MaxNavEvents
  /\ caps.sid \in {NoStr, sessionId}
  /\ caps' = IF caps.listening
             THEN [caps EXCEPT !.page = @ + 1,
                               !.navs = @ + 1,
                               !.handlers[caps.navs + 1] =
                                  [pc |-> "load", nav |-> caps.page + 1, shot |-> 0],
                               !.overlapped = @ \/ \E n \in 1..caps.navs : InFlight(n)]
             ELSE [caps EXCEPT !.page = @ + 1]
  /\ UNCHANGED <<sysVars, colVars, emVars, runVars, callVars, shutVars>>
  /\ UNCHANGED sdVars
  /\ UNCHANGED killVars
  /\ UNCHANGED launchVars
  /\ UNCHANGED netVars

\* An await of the handler settles. ok: it resolved; otherwise the catch
\* logs and the handler ends. The screenshot shows the page as it is when it
\* is taken; after optimizeScreenshot the handler stores the capture with
\* page.url() and new Date() as they are then.
CaptureStep(n, ok) ==
  /\ InFlight(n)
  /\ LET h == caps.handlers[n] IN
     IF ~ok
     THEN /\ caps' = [caps EXCEPT !.handlers[n].pc = "failed"]
          /\ UNCHANGED autoCaptures
     ELSE IF h.pc = "load"
     THEN /\ caps' = [caps EXCEPT !.handlers[n].pc = "screenshot"]
          /\ UNCHANGED autoCaptures
     ELSE IF h.pc = "screenshot"
     THEN /\ caps' = [caps EXCEPT !.handlers[n].pc = "optimize", !.handlers[n].shot = caps.page]
          /\ UNCHANGED autoCaptures
     ELSE /\ caps' = [caps EXCEPT !.handlers[n].pc = "stored", !.stored = Append(@, n)]
          /\ autoCaptures' = MapSet(autoCaptures, caps.sid,
                                    [image |-> h.shot, url |-> caps.page,
                                     capturedAt |-> Len(caps.stored) + 1])
  /\ last' = Other
  /\ UNCHANGED <<sessions, resources, pageRefs, collectors, iters, tasks, reqVars, alloc>>
  /\ UNCHANGED <<colVars, emVars, runVars, callVars, shutVars>>
  /\ UNCHANGED sdVars
  /\ UNCHANGED killVars
  /\ UNCHANGED launchVars
  /\ UNCHANGED netVars

NextCapture ==
  \/ Create
  \/ \E sid \in KnownArgs, hc \in BOOLEAN :
       SetPageRef(sid, <<"A">>, "web", hc, FALSE, MaxNavRefs)
  \/ \E sid \in CreatedIds : SetupAutoCapture(sid)
  \/ RemoveAutoCapture
  \/ \E sid \in CreatedIds : FrameNavigated(sid)
  \/ \E n \in 1..MaxNavEvents, ok \in BOOLEAN : CaptureStep(n, ok)

SpecCapture == Init /\ [][NextCapture]_vars

\* ------------------------------------------------------------------ destroyAll
\* await this.destroy(id) for the id at place i of the listing: destroy up
\* to its first await or its return.
destroyNext(A, t, bad) ==
  /\ all' = A
  /\ Finish(destroyBegin([r |-> Registry,
                          tk |-> [IdleTask EXCEPT !.sid = A.ids[A.i],
                                    !.live = get(A.ids[A.i]) # NoStr,
                                    !.had = CollectorsUnder(collectors, A.ids[A.i])]],
                         t, bad), t)

\* The cleanup handler registered in main, run by ShutdownManager.cleanup on
\* SIGINT or SIGTERM: destroyAll lists the sessions and begins the first destroy.
DestroyAll(t, bad) ==
  /\ all.pc = "idle"
  /\ tasks[t].pc \in {"idle", "done"}
  /\ IF list = <<>>
     THEN /\ all' = [all EXCEPT !.pc = "done", !.result = "resolved", !.began = alloc]
          /\ last' = Other
          /\ UNCHANGED <<regVars, iters, tasks, reqVars, alloc, emVars>>
     ELSE destroyNext([all EXCEPT !.pc = "running", !.ids = list, !.i = 1, !.began = alloc],
                      t, bad)
  /\ UNCHANGED <<colVars, runVars, callVars>>
  /\ UNCHANGED capVars
  /\ UNCHANGED sdVars
  /\ UNCHANGED killVars
  /\ UNCHANGED launchVars
  /\ UNCHANGED netVars

\* The destroy that destroyAll awaited has settled: a rejection ends
\* destroyAll, otherwise the loop goes on to the next id or returns.
DestroyAllNext(t, bad) ==
  /\ all.pc = "running"
  /\ tasks[t].pc = "done"
  /\ LET A == [all EXCEPT !.released = @ \o tasks[t].released] IN
     IF tasks[t].result = "rejected" \/ A.i = Len(A.ids)
     THEN /\ all' = [A EXCEPT !.pc = "done", !.result = tasks[t].result]
          /\ last' = Other
          /\ UNCHANGED <<regVars, iters, tasks, reqVars, alloc, emVars>>
     ELSE destroyNext([A EXCEPT !.i = @ + 1], t, bad)
  /\ UNCHANGED <<colVars, runVars, callVars>>
  /\ UNCHANGED capVars
  /\ UNCHANGED sdVars
  /\ UNCHANGED killVars
  /\ UNCHANGED launchVars
  /\ UNCHANGED netVars

\* ShutdownManager.cleanup after Promise.allSettled: process.exit(0).
ProcessExit ==
  /\ all.pc = "done"
  /\ all' = [all EXCEPT !.pc = "exited"]
  /\ UNCHANGED <<sysVars, colVars, emVars, runVars, callVars>>
  /\ UNCHANGED capVars
  /\ UNCHANGED sdVars
  /\ UNCHANGED killVars
  /\ UNCHANGED launchVars
  /\ UNCHANGED netVars

\* Requests are served until the process exits: destroyAll awaits each
\* destroy and the handler awaits destroyAll, so the continuation of a request
\* can run between the settling of a destroy and the next step of destroyAll,
\* and between the settling of destroyAll and process.exit.
Serving == all.pc # "exited"

NextShutdown ==
  \/ Serving /\ CreateWithin(MaxIds)
  \/ Serving /\ \E sid \in KnownArgs : AddResource(sid)
  \/ Serving /\ \E sid \in KnownArgs, hc \in BOOLEAN :
                   SetPageRef(sid, <<"A">>, "web", hc, FALSE, MaxNavRefs)
  \/ Serving /\ \E sid \in CreatedIds :
                   SetCollector("consoleCollectors", sid, <<"A">>, MaxPerKind, MaxPerKind)
  \/ Serving /\ \E sid \in CreatedIds, d \in CaptureData : SetAutoCapture(sid, d)
  \/ \E t \in TaskIds, bad \in BadSets : DestroyAll(t, bad)
  \/ \E t \in TaskIds, bad \in BadSets : DestroyAllNext(t, bad)
  \/ \E t \in TaskIds, ok \in BOOLEAN, bad \in BadSets : ContextClosed(t, ok, bad)
  \/ \E t \in TaskIds, ok \in BOOLEAN : CleanupSettled(t, ok)
  \/ ProcessExit

SpecShutdown == Init /\ [][NextShutdown]_vars

\* Several sessions created and destroyed, one destroy at a time.
NextSessions ==
  \/ CreateWithin(MaxIds)
  \/ \E sid \in KnownArgs : AddResource(sid)
  \/ \E sid \in KnownArgs, ident \in {<<"A">>}, hc \in BOOLEAN :
       SetPageRef(sid, ident, "web", hc, FALSE, MaxRefs)
  \/ \E sid \in CreatedIds, ident \in {<<"A">>} :
       SetCollector("consoleCollectors", sid, ident, MaxCollectors, MaxCollectors)
  \/ \E t \in TaskIds, sid \in KnownArgs, bad \in BadSets : Destroy(t, sid, bad)
  \/ \E t \in TaskIds, ok \in BOOLEAN, bad \in BadSets : ContextClosed(t, ok, bad)
  \/ \E t \in TaskIds, ok \in BOOLEAN : CleanupSettled(t, ok)

SpecSessions == Init /\ [][NextSessions]_vars

\* Destroy calls on one session that may overlap: a second call enters
\* while the first is suspended in a close or in a cleanup.
NextOverlap ==
  \/ Create
  \/ \E sid \in KnownArgs : AddResource(sid)
  \/ \E sid \in KnownArgs, hc \in BOOLEAN, hb \in BOOLEAN :
       SetPageRef(sid, <<"A">>, "web", hc, hb, MaxNavRefs)
  \/ \E sid \in CreatedIds :
       SetCollector("consoleCollectors", sid, <<"A">>, MaxPerKind, MaxPerKind)
  \/ \E sid \in CreatedIds, d \in CaptureData : SetAutoCapture(sid, d)
  \/ \E t \in Calls, sid \in KnownArgs, bad \in BadSets : Destroy(t, sid, bad)
  \/ \E t \in Calls, ok \in BOOLEAN, bad \in BadSets : ContextClosed(t, ok, bad)
  \/ \E t \in Calls, ok \in BOOLEAN, bad \in BadSets : BrowserClosed(t, ok, bad)
  \/ \E t \in Calls, ok \in BOOLEAN : CleanupSettled(t, ok)

SpecOverlap == Init /\ [][NextOverlap]_vars

\* ------------------------------------------------------------------ end_session, stop_process
EndTools == {"end_session", "stop_process"}

\* The handler of end_session or of stop_process up to its first await: the
\* session check, then destroy up to its first await or its return.
EndRequest(tool, t, sessionId, bad) ==
  /\ tasks[t].pc \in {"idle", "done"}
  /\ IF get(sessionId) = NoStr
     THEN /\ ret' = [op |-> tool, arg |-> sessionId, value |-> "Session not found"]
          /\ last' = Other
          /\ UNCHANGED <<regVars, iters, tasks, reqVars, resources, alloc, emVars>>
     ELSE /\ ret' = [op |-> tool, arg |-> sessionId, value |-> "await destroy"]
          /\ Finish(destroyBegin([r |-> Registry,
                                  tk |-> [IdleTask EXCEPT !.sid = sessionId, !.live = TRUE,
                                            !.had = CollectorsUnder(collectors, sessionId)]],
                                 t, bad), t)
  /\ UNCHANGED <<colVars, runVars>>
  /\ UNCHANGED shutVars
  /\ UNCHANGED capVars
  /\ UNCHANGED sdVars
  /\ UNCHANGED killVars
  /\ UNCHANGED launchVars
  /\ UNCHANGED netVars

\* What the handler answers once the destroy it awaits has settled:
\* end_session has no try around the await, stop_process catches.
reply(t) ==
  IF ret.value # "await destroy" THEN ret.value
  ELSE IF tasks[t].pc # "done" THEN "pending"
  ELSE IF tasks[t].result = "resolved"
  THEN (IF ret.op = "end_session" THEN "ended" ELSE "stopped")
  ELSE (IF ret.op = "end_session" THEN "rejected" ELSE "Failed to stop processes")

\* The collectors the tools register detach with page.off or stream.off,
\* which do not throw: no detach throws in a destroy these requests await.
NextTools ==
  \/ Create
  \/ \E sid \in KnownArgs : AddResource(sid)
  \/ \E sid \in KnownArgs, ident \in Identifiers, hc \in BOOLEAN, hb \in BOOLEAN :
       SetPageRef(sid, ident, "web", hc, hb, MaxNavRefs)
  \/ \E kind \in SweptKinds, sid \in CreatedIds, ident \in Identifiers :
       SetCollector(kind, sid, ident, MaxCollectors, MaxPerKind)
  \/ \E tool \in EndTools, t \in TaskIds, sid \in KnownArgs, bad \in {{}} :
       EndRequest(tool, t, sid, bad)
  \/ \E t \in TaskIds, ok \in BOOLEAN, bad \in {{}} : ContextClosed(t, ok, bad)
  \/ \E t \in TaskIds, ok \in BOOLEAN, bad \in {{}} : BrowserClosed(t, ok, bad)
  \/ \E t \in TaskIds, ok \in BOOLEAN : CleanupSettled(t, ok)

SpecTools == Init /\ [][NextTools]_vars


\* ------------------------------------------------------------------ navigate
\* The identifier getActivePage reports for a page reference.
identifierOf(ref) ==
  IF ref.type = "electron" THEN Electron
  ELSE IF ref.url = NoStr THEN Unknown ELSE ref.url

Labels(refs) == [i \in 1..Len(refs) |-> identifierOf(refs[i])]

\* A resolver that takes the first page reference when there are several.
getActivePageFirstOfMany(r, sessionId, pageIdentifier) ==
  IF sessionId \notin Range(r.sessions) THEN NotFound
  ELSE IF pageIdentifier # NoStr
  THEN LET ref == getPageRef(r, sessionId, pageIdentifier) IN
       IF ref.id = 0
       THEN [NotFound EXCEPT !.available = Labels(getPageRefs(r, sessionId))]
       ELSE [success |-> TRUE, ref |-> ref, identifier |-> pageIdentifier, available |-> <<>>]
  ELSE LET refs == getPageRefs(r, sessionId) IN
       IF Len(refs) = 0 THEN NotFound
       ELSE [success |-> TRUE, ref |-> refs[1], identifier |-> identifierOf(refs[1]),
             available |-> <<>>]

getActivePage(r, sessionId, pageIdentifier) ==
  IF sessionId \notin Range(r.sessions)
  THEN [success |-> FALSE, ref |-> Absent, identifier |-> NoStr, available |-> <<>>]
  ELSE IF pageIdentifier # NoStr
  THEN LET ref == getPageRef(r, sessionId, pageIdentifier) IN
       IF ref.id = 0
       THEN [success |-> FALSE, ref |-> Absent, identifier |-> NoStr,
             available |-> Labels(getPageRefs(r, sessionId))]
       ELSE [success |-> TRUE, ref |-> ref, identifier |-> pageIdentifier, available |-> <<>>]
  ELSE LET refs == getPageRefs(r, sessionId) IN
       IF Len(refs) = 0
       THEN [success |-> FALSE, ref |-> Absent, identifier |-> NoStr, available |-> <<>>]
       ELSE IF Len(refs) = 1
       THEN [success |-> TRUE, ref |-> refs[1], identifier |-> identifierOf(refs[1]),
             available |-> <<>>]
       ELSE [success |-> FALSE, ref |-> Absent, identifier |-> NoStr,
             available |-> Labels(refs)]

setUrl(r, sessionId, identifier, url) ==
  LET key == Key(sessionId, identifier) IN
  IF MapHas(r.pageRefs, key)
  THEN [r EXCEPT !.pageRefs = MapSet(@, key, [MapGet(r.pageRefs, key) EXCEPT !.url = url])]
  ELSE r

\* The workflow executor's way of following a navigation: the page reference
\* alone is removed and set again under the URL.
movePageRef(r, sessionId, pageIdentifier, url) ==
  LET oldRef == getPageRef(r, sessionId, pageIdentifier) IN
  IF oldRef.id = 0 THEN r
  ELSE LET r1 == removePageRef(r, sessionId, pageIdentifier) IN
       IF sessionId \notin Range(r.sessions) THEN r1
       ELSE [r1 EXCEPT !.pageRefs = MapSet(@, Key(sessionId, url), [oldRef EXCEPT !.url = url])]

\* The navigate tool after page.goto resolved: re-key, then update the url
\* field of the re-keyed page reference. No await in between.
gotoHandled(r, sessionId, currentIdentifier, pageType, url) ==
  IF pageType = "web" /\ currentIdentifier # Electron
  THEN setUrl(rekeyIdentifier(r, sessionId, currentIdentifier, url), sessionId, url, url)
  ELSE r

\* The navigate tool, action "goto", up to its await of page.goto.
Navigate(t, sessionId, url, pageIdentifier) ==
  /\ navs[t].pc \in {"idle", "done"}
  /\ LET pageResult == getActivePage(Registry, sessionId, pageIdentifier) IN
     navs' = [navs EXCEPT ![t] =
       IF pageResult.success
       THEN [pc |-> "goto", sid |-> sessionId,
             cur |-> pageResult.identifier, type |-> pageResult.ref.type, url |-> url,
             result |-> "none"]
       ELSE [IdleNav EXCEPT !.pc = "done", !.result = "error"]]
  /\ last' = Other
  /\ UNCHANGED <<regVars, iters, tasks, flows, alloc>>
  /\ UNCHANGED colVars
  /\ UNCHANGED emVars
  /\ UNCHANGED runVars
  /\ UNCHANGED callVars
  /\ UNCHANGED shutVars
  /\ UNCHANGED capVars
  /\ UNCHANGED sdVars
  /\ UNCHANGED killVars
  /\ UNCHANGED launchVars
  /\ UNCHANGED netVars

\* page.goto settled: on success the registry is re-keyed and the handler goes
\* on to its await of capturePlaywrightPage; a rejection is caught and the tool
\* replies with an error.
NavigateGotoSettled(t, ok) ==
  /\ navs[t].pc = "goto"
  /\ IF ok
     THEN /\ Install(gotoHandled(Registry, navs[t].sid, navs[t].cur, navs[t].type, navs[t].url))
          /\ navs' = [navs EXCEPT ![t].pc = "capture"]
          /\ last' = Event("navigate", navs[t].sid, navs[t].cur, navs[t].url,
                           Present(Registry, Key(navs[t].sid, navs[t].cur)))
     ELSE /\ navs' = [navs EXCEPT ![t] = [IdleNav EXCEPT !.pc = "done", !.result = "error"]]
          /\ last' = Other
          /\ UNCHANGED <<sessions, pageRefs, autoCaptures, collectors, iters>>
  /\ UNCHANGED <<resources, tasks, flows, alloc>>
  /\ UNCHANGED colVars
  /\ UNCHANGED emVars
  /\ UNCHANGED runVars
  /\ UNCHANGED callVars
  /\ UNCHANGED shutVars
  /\ UNCHANGED capVars
  /\ UNCHANGED sdVars
  /\ UNCHANGED killVars
  /\ UNCHANGED launchVars
  /\ UNCHANGED netVars

\* capturePlaywrightPage, then optimizeScreenshot, settled: the reply follows
\* the second; a rejection of either is caught and the tool replies with an
\* error. The registry stays as the re-keying left it.
NavigateScreenshotSettled(t, ok) ==
  /\ navs[t].pc \in {"capture", "optimize"}
  /\ navs' = [navs EXCEPT ![t] =
       IF ~ok THEN [IdleNav EXCEPT !.pc = "done", !.result = "error"]
       ELSE IF navs[t].pc = "capture" THEN [@ EXCEPT !.pc = "optimize"]
       ELSE [IdleNav EXCEPT !.pc = "done", !.result = "ok"]]
  /\ last' = Other
  /\ UNCHANGED <<regVars, iters, tasks, flows, alloc>>
  /\ UNCHANGED colVars
  /\ UNCHANGED emVars
  /\ UNCHANGED runVars
  /\ UNCHANGED callVars
  /\ UNCHANGED shutVars
  /\ UNCHANGED capVars
  /\ UNCHANGED sdVars
  /\ UNCHANGED killVars
  /\ UNCHANGED launchVars
  /\ UNCHANGED netVars

\* ------------------------------------------------------------------ workflow
\* executeWorkflow's navigate step after page.goto resolved. setPageRef throws
\* for a session that is gone: the step then fails, after removePageRef.
navigateStep(r, sessionId, pageIdentifier, url) ==
  movePageRef(r, sessionId, pageIdentifier, url)

navigateStepThrows(r, sessionId, pageIdentifier) ==
  /\ getPageRef(r, sessionId, pageIdentifier).id # 0
  /\ sessionId \notin Range(r.sessions)

\* run_workflow with one navigate step, up to the step's await of page.goto.
RunWorkflow(t, sessionId, url, pageIdentifier) ==
  /\ flows[t].pc \in {"idle", "done"}
  /\ LET pageResult == getActivePage(Registry, sessionId, pageIdentifier) IN
     flows' = [flows EXCEPT ![t] =
       IF pageResult.success
       THEN [pc |-> "goto", sid |-> sessionId, pageIdentifier |-> pageResult.identifier,
             url |-> url, result |-> "none"]
       ELSE [IdleFlow EXCEPT !.pc = "done", !.result = "error"]]
  /\ last' = Other
  /\ UNCHANGED <<regVars, iters, tasks, navs, alloc>>
  /\ UNCHANGED colVars
  /\ UNCHANGED emVars
  /\ UNCHANGED runVars
  /\ UNCHANGED callVars
  /\ UNCHANGED shutVars
  /\ UNCHANGED capVars
  /\ UNCHANGED sdVars
  /\ UNCHANGED killVars
  /\ UNCHANGED launchVars
  /\ UNCHANGED netVars

WorkflowGotoSettled(t, ok) ==
  /\ flows[t].pc = "goto"
  /\ IF ok
     THEN /\ Install(navigateStep(Registry, flows[t].sid, flows[t].pageIdentifier, flows[t].url))
          /\ flows' = [flows EXCEPT ![t].pc =
                           IF navigateStepThrows(Registry, flows[t].sid, flows[t].pageIdentifier)
                           THEN "caughtCapture" ELSE "capture"]
          /\ last' = IF navigateStepThrows(Registry, flows[t].sid, flows[t].pageIdentifier)
                     THEN Other
                     ELSE Event("workflowNavigate", flows[t].sid, flows[t].pageIdentifier,
                                flows[t].url,
                                Present(Registry, Key(flows[t].sid, flows[t].pageIdentifier)))
     ELSE /\ flows' = [flows EXCEPT ![t].pc = "caughtCapture"]
          /\ last' = Other
          /\ UNCHANGED <<sessions, pageRefs, autoCaptures, collectors, iters>>
  /\ UNCHANGED <<resources, tasks, navs, alloc>>
  /\ UNCHANGED colVars
  /\ UNCHANGED emVars
  /\ UNCHANGED runVars
  /\ UNCHANGED callVars
  /\ UNCHANGED shutVars
  /\ UNCHANGED capVars
  /\ UNCHANGED sdVars
  /\ UNCHANGED killVars
  /\ UNCHANGED launchVars
  /\ UNCHANGED netVars

\* The screenshot of the step settled: capturePlaywrightPage, then
\* optimizeScreenshot. In the try block a rejection of either fails the step,
\* with the page reference already moved; the catch block takes a best-effort
\* screenshot of its own, whose rejection is swallowed, and then the step is
\* recorded as failed and the workflow stops.
WorkflowScreenshotSettled(t, ok) ==
  /\ flows[t].pc \in {"capture", "optimize", "caughtCapture", "caughtOptimize"}
  /\ flows' = [flows EXCEPT ![t] =
       CASE flows[t].pc = "capture" ->
              [@ EXCEPT !.pc = IF ok THEN "optimize" ELSE "caughtCapture"]
         [] flows[t].pc = "optimize" ->
              IF ok THEN [IdleFlow EXCEPT !.pc = "done", !.result = "ok"]
              ELSE [@ EXCEPT !.pc = "caughtCapture"]
         [] flows[t].pc = "caughtCapture" ->
              IF ok THEN [@ EXCEPT !.pc = "caughtOptimize"]
              ELSE [IdleFlow EXCEPT !.pc = "done", !.result = "failed"]
         [] flows[t].pc = "caughtOptimize" ->
              [IdleFlow EXCEPT !.pc = "done", !.result = "failed"]]
  /\ last' = Other
  /\ UNCHANGED <<regVars, iters, tasks, navs, alloc>>
  /\ UNCHANGED colVars
  /\ UNCHANGED emVars
  /\ UNCHANGED runVars
  /\ UNCHANGED callVars
  /\ UNCHANGED shutVars
  /\ UNCHANGED capVars
  /\ UNCHANGED sdVars
  /\ UNCHANGED killVars
  /\ UNCHANGED launchVars
  /\ UNCHANGED netVars

PageArgs == Identifiers \cup {NoStr}

\* A request that resolves its page: getActivePage(sessionManager, sessionId,
\* pageIdentifier), as every interaction tool calls it first.
Resolve(sessionId, pageIdentifier) ==
  /\ resolved' = [sid |-> sessionId, pid |-> pageIdentifier,
                  result |-> getActivePage(Registry, sessionId, pageIdentifier)]
  /\ last' = Event("getActivePage", sessionId, pageIdentifier, NoStr,
                   Len(getPageRefs(Registry, sessionId)))
  /\ UNCHANGED <<regVars, iters, tasks, reqVars, alloc, wf>>
  /\ UNCHANGED colVars
  /\ UNCHANGED emVars
  /\ UNCHANGED callVars
  /\ UNCHANGED shutVars
  /\ UNCHANGED capVars
  /\ UNCHANGED sdVars
  /\ UNCHANGED killVars
  /\ UNCHANGED launchVars
  /\ UNCHANGED netVars

NextNav ==
  \/ Create
  \/ \E sid \in KnownArgs, ident \in Identifiers : SetPageRef(sid, ident, "web", TRUE, TRUE, MaxNavRefs)
  \/ \E sid \in KnownArgs : SetPageRef(sid, Electron, "electron", FALSE, FALSE, MaxNavRefs)
  \/ \E kind \in KindSet, sid \in CreatedIds, ident \in Identifiers :
       SetCollector(kind, sid, ident, Len(CollectorKinds) * MaxPerKind, MaxPerKind)
  \/ \E sid \in CreatedIds, ident \in Identifiers : RemovePageRef(sid, ident)
  \/ \E sid \in KnownArgs, a \in Identifiers, b \in Identifiers : RekeyIdentifier(sid, a, b)
  \/ \E t \in TaskIds, sid \in KnownArgs, url \in Identifiers, pid \in PageArgs :
       Navigate(t, sid, url, pid)
  \/ \E t \in TaskIds, ok \in BOOLEAN : NavigateGotoSettled(t, ok)
  \/ \E t \in TaskIds, ok \in BOOLEAN : NavigateScreenshotSettled(t, ok)

SpecNav == Init /\ [][NextNav]_vars

\* The registry with two page references and two collectors of a kind, and
\* rekeyIdentifier called with any identifiers.
NextRekey ==
  \/ Create
  \/ \E sid \in KnownArgs, ident \in Identifiers : SetPageRef(sid, ident, "web", TRUE, TRUE, MaxRefs)
  \/ \E kind \in SweptKinds, sid \in CreatedIds, ident \in Identifiers :
       SetCollector(kind, sid, ident, MaxCollectors, MaxCollectors)
  \/ \E sid \in CreatedIds, ident \in Identifiers : RemovePageRef(sid, ident)
  \/ \E sid \in KnownArgs, a \in Identifiers, b \in Identifiers : RekeyIdentifier(sid, a, b)

SpecRekey == Init /\ [][NextRekey]_vars

NextFlow ==
  \/ Create
  \/ \E sid \in KnownArgs, ident \in Identifiers : SetPageRef(sid, ident, "web", TRUE, TRUE, MaxNavRefs)
  \/ \E kind \in KindSet, sid \in CreatedIds, ident \in Identifiers :
       SetCollector(kind, sid, ident, Len(CollectorKinds) * MaxPerKind, MaxPerKind)
  \/ \E sid \in CreatedIds, ident \in Identifiers : RemovePageRef(sid, ident)
  \/ \E t \in TaskIds, sid \in KnownArgs, url \in Identifiers, pid \in PageArgs :
       RunWorkflow(t, sid, url, pid)
  \/ \E t \in TaskIds, ok \in BOOLEAN : WorkflowGotoSettled(t, ok)
  \/ \E t \in TaskIds, ok \in BOOLEAN : WorkflowScreenshotSettled(t, ok)

SpecFlow == Init /\ [][NextFlow]_vars

\* Page references as the tools register them (screenshot_web under the URL,
\* launch_electron under "electron"), navigations of the navigate tool and of
\* a workflow's navigate step, and requests resolving their page with or
\* without an identifier.
NextResolve ==
  \/ Create
  \/ \E sid \in KnownArgs, ident \in Identifiers : SetPageRef(sid, ident, "web", TRUE, TRUE, MaxRefs)
  \/ \E sid \in KnownArgs : SetPageRef(sid, Electron, "electron", FALSE, FALSE, MaxRefs)
  \/ \E sid \in CreatedIds, ident \in Identifiers \cup {Electron} : RemovePageRef(sid, ident)
  \/ \E t \in TaskIds, sid \in KnownArgs, url \in Identifiers, pid \in PageArgs :
       Navigate(t, sid, url, pid)
  \/ \E t \in TaskIds, ok \in BOOLEAN : NavigateGotoSettled(t, ok)
  \/ \E t \in TaskIds, ok \in BOOLEAN : NavigateScreenshotSettled(t, ok)
  \/ \E t \in TaskIds, sid \in CreatedIds : RunWorkflow(t, sid, <<"B">>, NoStr)
  \/ \E t \in TaskIds, ok \in BOOLEAN : WorkflowGotoSettled(t, ok)
  \/ \E t \in TaskIds, ok \in BOOLEAN : WorkflowScreenshotSettled(t, ok)
  \/ \E sid \in KnownArgs, pid \in PageArgs \cup {Electron} : Resolve(sid, pid)

SpecResolve == Init /\ [][NextResolve]_vars

\* ------------------------------------------------------------------ workflow steps
\* A step as the caller wrote it: its action, whether it has a selector and a
\* text, its url, and, for an assert step, what the assertion evaluates to on
\* the page.
Step(action, selector, text, url, passes) ==
  [action |-> action, selector |-> selector, text |-> text, url |-> url, passes |-> passes]
StepShapes ==
  {Step("click", TRUE, FALSE, NoStr, FALSE),
   Step("click", FALSE, FALSE, NoStr, FALSE),
   Step("navigate", FALSE, FALSE, <<"B">>, FALSE),
   Step("screenshot", FALSE, FALSE, NoStr, FALSE),
   Step("assert", TRUE, FALSE, NoStr, TRUE),
   Step("assert", TRUE, FALSE, NoStr, FALSE)}
Workflows == UNION {[1..n -> StepShapes] : n \in 1..MaxSteps}

Valid == [index |-> -1, message |-> "null"]
Invalid(index, message) == [index |-> index, message |-> message]
validateStep(step, index) ==
  CASE step.action = "click" ->
         IF ~step.selector THEN Invalid(index, "'click' requires a 'selector' field") ELSE Valid
    [] step.action = "type" ->
         IF ~step.selector THEN Invalid(index, "'type' requires a 'selector' field")
         ELSE IF ~step.text THEN Invalid(index, "'type' requires a 'text' field")
         ELSE Valid
    [] step.action = "navigate" ->
         IF step.url = NoStr THEN Invalid(index, "'navigate' requires a 'url' field") ELSE Valid
    [] step.action = "wait" ->
         IF ~step.selector THEN Invalid(index, "'wait' requires a 'selector' field") ELSE Valid
    [] step.action = "screenshot" -> Valid
    [] OTHER -> Invalid(index, "unknown action")

\* The run_workflow handler's loop over all steps, from index i on.
RECURSIVE validationErrorsFrom(_, _)
validationErrorsFrom(steps, i) ==
  IF i >= Len(steps) THEN <<>>
  ELSE (IF validateStep(steps[i + 1], i) # Valid THEN <<validateStep(steps[i + 1], i)>> ELSE <<>>)
       \o validationErrorsFrom(steps, i + 1)

\* A handler that validates the first step only.
validationErrorsOfFirstStep(steps) ==
  IF validateStep(steps[1], 0) # Valid THEN <<validateStep(steps[1], 0)>> ELSE <<>>

validationErrors(steps) == validationErrorsFrom(steps, 0)

\* The result object of the current step as it is pushed; consoleDuring and
\* errorDuring note what the collectors pushed while the step ran.
StepResult(w, step, success, error) ==
  [stepIndex |-> w.i, action |-> step.action, success |-> success, error |-> error,
   assertion |-> "none", consoleDelta |-> w.consoleDelta, errorDelta |-> w.errorDelta,
   consoleDuring |-> w.consoleDuring, errorDuring |-> w.errorDuring]

\* What executeWorkflow returns: results.filter(success).length and the
\* stepIndex of the first result that did not succeed.
WorkflowResult(results, steps) ==
  LET failed == {j \in DOMAIN results : ~results[j].success} IN
  [steps |-> results,
   totalSteps |-> Len(steps),
   completedSteps |-> Cardinality({j \in DOMAIN results : results[j].success}),
   failedStep |-> IF failed = {} THEN -1
                  ELSE results[CHOOSE j \in failed : \A h \in failed : j <= h].stepIndex]

returned(w) ==
  [w EXCEPT !.pc = "done", !.outcome = "returned", !.result = WorkflowResult(w.results, w.steps)]

\* The head of the loop for step w.i: past the last step the function returns;
\* a step that fails validation is recorded and ends the loop. A screenshot
\* step has no action (case "screenshot": break): nothing is dispatched or
\* awaited for it and the executor is at the capture after the switch. Any
\* other step has its action dispatched against the page.
enter(w0) ==
  LET w == [w0 EXCEPT !.consoleDelta = <<>>, !.errorDelta = <<>>,
                      !.consoleDuring = <<>>, !.errorDuring = <<>>] IN
  IF w.i >= Len(w.steps) THEN returned(w)
  ELSE LET step == w.steps[w.i + 1]
           validationError == validateStep(step, w.i)
       IN IF validationError # Valid
          THEN returned([w EXCEPT !.results =
                           Append(@, StepResult(w, step, FALSE, validationError.message))])
          ELSE IF step.action = "screenshot" THEN [w EXCEPT !.pc = "capture"]
          ELSE [w EXCEPT !.pc = "step", !.dispatched = Append(@, w.i)]

\* An executor that records a failed step and goes on with the next one.
settleContinues(w, ok) ==
  LET step == w.steps[w.i + 1] IN
  enter([w EXCEPT !.results = Append(@, StepResult(w, step, ok, IF ok THEN "none" ELSE "thrown")),
                  !.i = @ + 1])

\* An executor whose catch block pushes the result and falls through to the
\* push of the success path as well.
settlePushesTwice(w, ok) ==
  LET step == w.steps[w.i + 1] IN
  IF ok
  THEN enter([w EXCEPT !.results = Append(@, StepResult(w, step, TRUE, "none")), !.i = @ + 1])
  ELSE returned([w EXCEPT !.results =
                   @ \o <<StepResult(w, step, FALSE, "thrown"),
                          StepResult(w, step, FALSE, "thrown")>>])

\* The rest of step w.i once its action and its screenshot have settled: on
\* success the result is pushed and the loop goes on; when anything in the try
\* block threw, the result is pushed with the error and the loop is left.
settle(w, ok) ==
  LET step == w.steps[w.i + 1] IN
  IF ok
  THEN enter([w EXCEPT !.results = Append(@, StepResult(w, step, TRUE, "none")), !.i = @ + 1])
  ELSE returned([w EXCEPT !.results = Append(@, StepResult(w, step, FALSE, "thrown"))])

\* sessionManager.getConsoleCollectors(sessionId).flatMap(c => [...c.getEntries()]):
\* the collectors registered under a key of the session, in the Map's order;
\* col is the attached collector a registered object is (0: none of them).
RECURSIVE entriesOf(_, _)
entriesOf(regs, cs) ==
  IF regs = <<>> THEN <<>>
  ELSE (IF Head(regs).col # 0 THEN cs[Head(regs).col].entries ELSE <<>>)
       \o entriesOf(Tail(regs), cs)

allEntries(r, cs, kind, sessionId) == entriesOf(getCollectors(r, kind, sessionId), cs)

RECURSIVE pushedSince(_, _, _)
pushedSince(regs, cs, since) ==
  IF regs = <<>> THEN <<>>
  ELSE (IF Head(regs).col # 0
        THEN SubSeq(cs[Head(regs).col].produced, since[Head(regs).col] + 1,
                    Len(cs[Head(regs).col].produced))
        ELSE <<>>)
       \o pushedSince(Tail(regs), cs, since)

slice(s, from) == SubSeq(s, from + 1, Len(s))

\* The log deltas of the current step, on either path.
logDeltas(w, r, cs) ==
  LET allConsole == allEntries(r, cs, "consoleCollectors", w.sid)
      allErrors == allEntries(r, cs, "errorCollectors", w.sid)
  IN [w EXCEPT !.consoleDelta = slice(allConsole, w.lastConsoleCount),
               !.errorDelta = slice(allErrors, w.lastErrorCount),
               !.lastConsoleCount = Len(allConsole),
               !.lastErrorCount = Len(allErrors),
               !.consoleDuring =
                  pushedSince(getCollectors(r, "consoleCollectors", w.sid), cs, w.since),
               !.errorDuring =
                  pushedSince(getCollectors(r, "errorCollectors", w.sid), cs, w.since)]

\* A step begins, at the await of its action or, for a screenshot step, at
\* the await of the capture: what every collector has pushed so far is noted.
began(w, cs) ==
  IF w.pc \in {"step", "capture"} THEN [w EXCEPT !.since = [id \in ColIds |-> Len(cs[id].produced)]] ELSE w

\* The run_workflow handler up to the first await of executeWorkflow: session
\* check, page discovery, validation of all steps, then the first step.
RunWorkflowTool(sessionId, steps, pageIdentifier) ==
  /\ wf.pc \in {"idle", "done"}
  /\ LET pageResult == getActivePage(Registry, sessionId, pageIdentifier)
         call == [IdleRun EXCEPT !.pc = "done", !.sid = sessionId, !.steps = steps,
                                 !.before = Total([id \in ColIds |-> Len(cols[id].produced)]),
                                 !.registered = collectors]
     IN wf' = IF get(sessionId) = NoStr THEN [call EXCEPT !.outcome = "sessionNotFound"]
              ELSE IF ~pageResult.success THEN [call EXCEPT !.outcome = "pageNotFound"]
              ELSE IF validationErrors(steps) # <<>>
              THEN [call EXCEPT !.outcome = "validationFailed"]
              ELSE began(enter([call EXCEPT !.pageIdentifier = pageResult.identifier]), cols)
  /\ last' = Other
  /\ UNCHANGED <<regVars, iters, tasks, reqVars, alloc, resolved>>
  /\ UNCHANGED colVars
  /\ UNCHANGED emVars
  /\ UNCHANGED callVars
  /\ UNCHANGED shutVars
  /\ UNCHANGED capVars
  /\ UNCHANGED sdVars
  /\ UNCHANGED killVars
  /\ UNCHANGED launchVars
  /\ UNCHANGED netVars

\* How a step ended: "ok", or what threw in its try block.
Outcomes == {"ok", "actionThrows", "captureThrows"}

\* The catch block is entered: the error is noted and the best-effort
\* screenshot is awaited.
caught(w, thrown) == [w EXCEPT !.pc = "caughtCapture", !.threw = thrown]

\* The step is over: the log deltas are read, the result is pushed, and the
\* loop goes on or is left.
pushed(w, cs) ==
  began(settle(logDeltas([w EXCEPT !.outcomes = Append(@, w.threw), !.threw = "ok"],
                         Registry, cs),
               w.threw = "ok"),
        cs)

\* The action of the current step settled; a screenshot step has no action
\* and never gets here. A navigate step whose page.goto resolved moves the
\* page reference right away, before the screenshot is awaited; setPageRef
\* throws when the session is gone.
StepSettled(ok) ==
  /\ wf.pc = "step"
  /\ wf.steps[wf.i + 1].action # "screenshot"
  /\ LET step == wf.steps[wf.i + 1]
         moves == step.action = "navigate" /\ ok
         throws == moves /\ navigateStepThrows(Registry, wf.sid, wf.pageIdentifier)
     IN /\ IF moves
           THEN Install(navigateStep(Registry, wf.sid, wf.pageIdentifier, step.url))
           ELSE UNCHANGED <<sessions, pageRefs, autoCaptures, collectors, iters>>
        /\ wf' = IF ~ok \/ throws THEN caught(wf, "actionThrows")
                 ELSE [wf EXCEPT !.pc = "capture",
                                 !.pageIdentifier = IF moves THEN step.url ELSE @]
  /\ last' = Other
  /\ UNCHANGED <<resources, tasks, reqVars, alloc, resolved>>
  /\ UNCHANGED colVars
  /\ UNCHANGED emVars
  /\ UNCHANGED callVars
  /\ UNCHANGED shutVars
  /\ UNCHANGED capVars
  /\ UNCHANGED sdVars
  /\ UNCHANGED killVars
  /\ UNCHANGED launchVars
  /\ UNCHANGED netVars

\* A screenshot await of the current step settled: capturePlaywrightPage, then
\* optimizeScreenshot. In the try block a rejection of either is caught like a
\* throwing action; in the catch block a rejection is swallowed.
ScreenshotSettled(ok) ==
  /\ wf.pc \in {"capture", "optimize", "caughtCapture", "caughtOptimize"}
  /\ wf' = CASE wf.pc = "capture" ->
                 IF ok THEN [wf EXCEPT !.pc = "optimize"] ELSE caught(wf, "captureThrows")
            [] wf.pc = "optimize" ->
                 IF ok THEN pushed(wf, cols) ELSE caught(wf, "captureThrows")
            [] wf.pc = "caughtCapture" ->
                 IF ok THEN [wf EXCEPT !.pc = "caughtOptimize"] ELSE pushed(wf, cols)
            [] wf.pc = "caughtOptimize" -> pushed(wf, cols)
  /\ last' = Other
  /\ UNCHANGED <<regVars, iters, tasks, reqVars, alloc, resolved>>
  /\ UNCHANGED colVars
  /\ UNCHANGED emVars
  /\ UNCHANGED callVars
  /\ UNCHANGED shutVars
  /\ UNCHANGED capVars
  /\ UNCHANGED sdVars
  /\ UNCHANGED killVars
  /\ UNCHANGED launchVars
  /\ UNCHANGED netVars

NextSteps ==
  \/ Create
  \/ \E sid \in KnownArgs, ident \in Identifiers : SetPageRef(sid, ident, "web", TRUE, TRUE, MaxNavRefs)
  \/ \E sid \in CreatedIds, ident \in Identifiers : RemovePageRef(sid, ident)
  \/ \E sid \in KnownArgs, steps \in Workflows, pid \in {NoStr, <<"A">>} :
       RunWorkflowTool(sid, steps, pid)
  \/ \E ok \in BOOLEAN : StepSettled(ok)
  \/ \E ok \in BOOLEAN : ScreenshotSettled(ok)

SpecSteps == Init /\ [][NextSteps]_vars

\* ------------------------------------------------------------------ validateStep on steps as written
\* An optional string field of a step: undefined, or a string that may be empty.
Undefined == [defined |-> FALSE, value |-> <<>>]
Str(value) == [defined |-> TRUE, value |-> value]
truthy(field) == field.defined /\ field.value # <<>>

RawSteps ==
  [action : {"click", "type", "navigate", "wait", "screenshot", "assert", "hover"},
   selector : {Undefined, Str(<<>>), Str(<<"#a">>)},
   text : {Undefined, Str(<<>>), Str(<<"hi">>)},
   url : {Undefined, Str(<<>>), Str(<<"B">>)},
   assertType : {Undefined, Str(<<"exists">>)}]

\* What validateStep and the executor read of a step: !step.selector,
\* step.text === undefined || step.text === null, !step.url.
toStep(raw) ==
  Step(raw.action, truthy(raw.selector), raw.text.defined,
       IF truthy(raw.url) THEN raw.url.value ELSE NoStr, FALSE)

Validate(raw, index) ==
  /\ ret' = [op |-> "validateStep", arg |-> [step |-> raw, index |-> index],
             value |-> validateStep(toStep(raw), index)]
  /\ UNCHANGED <<sysVars, colVars, emVars, runVars>>
  /\ UNCHANGED shutVars
  /\ UNCHANGED capVars
  /\ UNCHANGED sdVars
  /\ UNCHANGED killVars
  /\ UNCHANGED launchVars
  /\ UNCHANGED netVars

NextValidate == \E raw \in RawSteps, index \in 0..(MaxSteps - 1) : Validate(raw, index)

SpecValidate == Init /\ [][NextValidate]_vars

\* ------------------------------------------------------------------ collectors
\* if (entries.length >= maxEntries) entries.shift(); entries.push(entry)
push(buf, max, entry) ==
  Append(IF Len(buf) >= max THEN (IF buf = <<>> THEN <<>> ELSE Tail(buf)) ELSE buf, entry)

\* text.split("\n"), cur being the line collected so far.
RECURSIVE split(_, _)
split(text, cur) ==
  IF text = <<>> THEN <<cur>>
  ELSE IF Head(text) = "\n" THEN <<cur>> \o split(Tail(text), <<>>)
  ELSE split(Tail(text), Append(cur, Head(text)))

\* The white space and line terminators String.prototype.trim, trimStart and
\* trimEnd strip (ECMAScript WhiteSpace and LineTerminator): tab, line feed,
\* vertical tab, form feed, carriage return, space, no-break space, the byte
\* order mark, the line and paragraph separators and the space separators of
\* Unicode. A character without an escape of its own is written by its code
\* point.
WhiteSpace ==
  {" ", "\t", "\n", "\r", "\f", "U+000B", "U+00A0", "U+FEFF", "U+2028", "U+2029",
   "U+1680", "U+2000", "U+2001", "U+2002", "U+2003", "U+2004", "U+2005", "U+2006",
   "U+2007", "U+2008", "U+2009", "U+200A", "U+202F", "U+205F", "U+3000"}

RECURSIVE trimEnd(_)
trimEnd(line) ==
  IF line # <<>> /\ line[Len(line)] \in WhiteSpace
  THEN trimEnd(SubSeq(line, 1, Len(line) - 1)) ELSE line

\* The timestamp of the next entry; entries are told apart by it.
Now == Len(produced) + 1

\* The data handler's loop over the lines of one chunk, on the pair of the
\* buffer and the entries pushed so far.
RECURSIVE handleLines(_, _, _, _)
handleLines(st, max, stream, lines) ==
  IF lines = <<>> THEN st
  ELSE LET trimmed == trimEnd(Head(lines)) IN
       IF Len(trimmed) = 0 THEN handleLines(st, max, stream, Tail(lines))
       ELSE LET entry == [timestamp |-> Len(st.produced) + 1, stream |-> stream, text |-> trimmed]
            IN handleLines([entries |-> push(st.entries, max, entry),
                            produced |-> Append(st.produced, entry)],
                           max, stream, Tail(lines))

getEntries == entries

Listening(kind) ==
  /\ attached.kind = kind
  /\ attached.listening
  /\ Len(produced) < MaxEvents

Pushed(entry) ==
  /\ entries' = push(entries, attached.maxEntries, entry)
  /\ produced' = Append(produced, entry)

\* attachConsoleCollector, attachErrorCollector, attachNetworkCollector,
\* attachProcessCollector: an empty buffer and the handlers registered.
Attach(kind, maxEntries) ==
  /\ attached.kind = "none"
  /\ attached' = [kind |-> kind, maxEntries |-> maxEntries, listening |-> TRUE]
  /\ entries' = <<>>
  /\ pendingRequests' = <<>>
  /\ UNCHANGED <<produced, sysVars>>
  /\ UNCHANGED emVars
  /\ UNCHANGED runVars
  /\ UNCHANGED callVars
  /\ UNCHANGED shutVars
  /\ UNCHANGED capVars
  /\ UNCHANGED sdVars
  /\ UNCHANGED killVars
  /\ UNCHANGED launchVars
  /\ UNCHANGED netVars

Levels == {"log", "error"}

ConsoleMessage(level) ==
  /\ Listening("console")
  /\ Pushed([timestamp |-> Now, level |-> level])
  /\ UNCHANGED <<attached, pendingRequests, sysVars>>
  /\ UNCHANGED emVars
  /\ UNCHANGED runVars
  /\ UNCHANGED callVars
  /\ UNCHANGED shutVars
  /\ UNCHANGED capVars
  /\ UNCHANGED sdVars
  /\ UNCHANGED killVars
  /\ UNCHANGED launchVars
  /\ UNCHANGED netVars

PageError ==
  /\ Listening("error")
  /\ Pushed([timestamp |-> Now, type |-> "uncaught-exception"])
  /\ UNCHANGED <<attached, pendingRequests, sysVars>>
  /\ UNCHANGED emVars
  /\ UNCHANGED runVars
  /\ UNCHANGED callVars
  /\ UNCHANGED shutVars
  /\ UNCHANGED capVars
  /\ UNCHANGED sdVars
  /\ UNCHANGED killVars
  /\ UNCHANGED launchVars
  /\ UNCHANGED netVars

PageCrash ==
  /\ Listening("error")
  /\ Pushed([timestamp |-> Now, type |-> "page-crash"])
  /\ UNCHANGED <<attached, pendingRequests, sysVars>>
  /\ UNCHANGED emVars
  /\ UNCHANGED runVars
  /\ UNCHANGED callVars
  /\ UNCHANGED shutVars
  /\ UNCHANGED capVars
  /\ UNCHANGED sdVars
  /\ UNCHANGED killVars
  /\ UNCHANGED launchVars
  /\ UNCHANGED netVars

RequestKeys == {<<"GET", " ", "/a">>, <<"GET", " ", "/b">>}

Request(key) ==
  /\ Listening("network")
  /\ pendingRequests' = MapSet(pendingRequests, key, [id |-> Now])
  /\ UNCHANGED <<attached, entries, produced, sysVars>>
  /\ UNCHANGED emVars
  /\ UNCHANGED runVars
  /\ UNCHANGED callVars
  /\ UNCHANGED shutVars
  /\ UNCHANGED capVars
  /\ UNCHANGED sdVars
  /\ UNCHANGED killVars
  /\ UNCHANGED launchVars
  /\ UNCHANGED netVars

Response(key) ==
  /\ Listening("network")
  /\ pendingRequests' = MapDelete(pendingRequests, key)
  /\ Pushed([timestamp |-> Now, key |-> key, status |-> 200,
             timed |-> MapHas(pendingRequests, key)])
  /\ UNCHANGED <<attached, sysVars>>
  /\ UNCHANGED emVars
  /\ UNCHANGED runVars
  /\ UNCHANGED callVars
  /\ UNCHANGED shutVars
  /\ UNCHANGED capVars
  /\ UNCHANGED sdVars
  /\ UNCHANGED killVars
  /\ UNCHANGED launchVars
  /\ UNCHANGED netVars

RequestFailed(key) ==
  /\ Listening("network")
  /\ pendingRequests' = MapDelete(pendingRequests, key)
  /\ Pushed([timestamp |-> Now, key |-> key, status |-> 0,
             timed |-> MapHas(pendingRequests, key)])
  /\ UNCHANGED <<attached, sysVars>>
  /\ UNCHANGED emVars
  /\ UNCHANGED runVars
  /\ UNCHANGED callVars
  /\ UNCHANGED shutVars
  /\ UNCHANGED capVars
  /\ UNCHANGED sdVars
  /\ UNCHANGED killVars
  /\ UNCHANGED launchVars
  /\ UNCHANGED netVars

RECURSIVE Texts(_)
Texts(n) ==
  IF n = 0 THEN {<<>>}
  ELSE LET shorter == Texts(n - 1) IN
       shorter \cup {Append(t, c) : t \in shorter, c \in {"a", " ", "\n"}}

\* Every short chunk of a letter, blanks and line feeds, and chunks with the
\* other white space a line can end in.
Chunks ==
  (Texts(MaxChunk) \ {<<>>})
    \cup {<<"a", "\r", "\n">>, <<"\r", "\n">>, <<"a", "\t">>,
          <<"a", "U+000B">>, <<"U+000B">>, <<"a", "U+00A0">>, <<"a", "U+FEFF">>}

ProcessData(stream, data) ==
  /\ Listening("process")
  /\ LET st == handleLines([entries |-> entries, produced |-> produced],
                           attached.maxEntries, stream, split(data, <<>>)) IN
     /\ entries' = st.entries
     /\ produced' = st.produced
  /\ UNCHANGED <<attached, pendingRequests, sysVars>>
  /\ UNCHANGED emVars
  /\ UNCHANGED runVars
  /\ UNCHANGED callVars
  /\ UNCHANGED shutVars
  /\ UNCHANGED capVars
  /\ UNCHANGED sdVars
  /\ UNCHANGED killVars
  /\ UNCHANGED launchVars
  /\ UNCHANGED netVars

Detach ==
  /\ attached.listening
  /\ attached' = [attached EXCEPT !.listening = FALSE]
  /\ UNCHANGED <<entries, pendingRequests, produced, sysVars>>
  /\ UNCHANGED emVars
  /\ UNCHANGED runVars
  /\ UNCHANGED callVars
  /\ UNCHANGED shutVars
  /\ UNCHANGED capVars
  /\ UNCHANGED sdVars
  /\ UNCHANGED killVars
  /\ UNCHANGED launchVars
  /\ UNCHANGED netVars

BufferKinds == {"console", "error", "network", "process"}

NextCollector ==
  \/ \E kind \in BufferKinds, n \in 0..MaxN : Attach(kind, n)
  \/ \E level \in Levels : ConsoleMessage(level)
  \/ PageError
  \/ PageCrash
  \/ \E key \in RequestKeys : Request(key)
  \/ \E key \in RequestKeys : Response(key)
  \/ \E key \in RequestKeys : RequestFailed(key)
  \/ \E stream \in {"stdout", "stderr"}, data \in Chunks : ProcessData(stream, data)
  \/ Detach

SpecCollector == Init /\ [][NextCollector]_vars

\* ------------------------------------------------------------------ emitters
\* Collectors on the emitters they listen to (a page, a child's stdout and
\* stderr), next to each other and to listeners that are not theirs.
\* The handlers, on a collector's closure state.
colPush(c, entry) ==
  [c EXCEPT !.entries = push(@, c.maxEntries, entry), !.produced = Append(@, entry)]

handler(c, level) == colPush(c, [timestamp |-> Len(c.produced) + 1, level |-> level])

errorHandler(c) == colPush(c, [timestamp |-> Len(c.produced) + 1, type |-> "uncaught-exception"])

crashHandler(c) == colPush(c, [timestamp |-> Len(c.produced) + 1, type |-> "page-crash"])

requestHandler(c, key) ==
  [c EXCEPT !.pendingRequests = MapSet(@, key, [id |-> Len(c.produced) + 1])]

\* A response handler that drops the responses it has no request for.
responseHandlerMatchedOnly(c, key) ==
  IF MapHas(c.pendingRequests, key)
  THEN colPush([c EXCEPT !.pendingRequests = MapDelete(@, key)],
               [timestamp |-> Len(c.produced) + 1, key |-> key, status |-> 200, timed |-> TRUE])
  ELSE c

responseHandler(c, key) ==
  colPush([c EXCEPT !.pendingRequests = MapDelete(@, key)],
          [timestamp |-> Len(c.produced) + 1, key |-> key, status |-> 200,
           timed |-> MapHas(c.pendingRequests, key)])

failedHandler(c, key) ==
  colPush([c EXCEPT !.pendingRequests = MapDelete(@, key)],
          [timestamp |-> Len(c.produced) + 1, key |-> key, status |-> 0,
           timed |-> MapHas(c.pendingRequests, key)])

dataHandler(c, stream, data) ==
  LET st == handleLines([entries |-> c.entries, produced |-> c.produced],
                        c.maxEntries, stream, split(data, <<>>))
  IN [c EXCEPT !.entries = st.entries, !.produced = st.produced]

call(c, fn, x) ==
  CASE fn = "handler" -> handler(c, x)
    [] fn = "errorHandler" -> errorHandler(c)
    [] fn = "crashHandler" -> crashHandler(c)
    [] fn = "requestHandler" -> requestHandler(c, x)
    [] fn = "responseHandler" -> responseHandler(c, x)
    [] fn = "failedHandler" -> failedHandler(c, x)
    [] fn = "stdoutHandler" -> dataHandler(c, "stdout", x)
    [] fn = "stderrHandler" -> dataHandler(c, "stderr", x)

\* emitter.emit(event, x): every listener of the event, in registration order.
RECURSIVE deliver(_, _, _, _)
deliver(cs, ls, event, x) ==
  IF ls = <<>> THEN cs
  ELSE LET l == Head(ls) IN
       IF l.event = event /\ l.owner # 0
       THEN deliver([cs EXCEPT ![l.owner] = call(@, l.fn, x)], Tail(ls), event, x)
       ELSE deliver(cs, Tail(ls), event, x)

Receivers(ls, event) ==
  LET hit == SelectSeq(ls, LAMBDA l : l.event = event) IN [i \in DOMAIN hit |-> hit[i].owner]

\* getEntries: () => [...entries], a new array with the buffer's elements.
snapshotSameArray(id, buf) == [from |-> id, alias |-> TRUE, arr |-> <<>>, was |-> buf]

snapshot(id, buf) == [from |-> id, alias |-> FALSE, arr |-> buf, was |-> buf]

\* What the holder of an array reads in it.
Deref(h, cs) == IF h.alias THEN cs[h.from].entries ELSE h.arr

Events ==
  {"console", "pageerror", "crash", "request", "response", "requestfailed", "stdout", "stderr"}

DataChunks == {<<"a">>, <<"a", " ", "\n", "a">>, <<"a", "\r", "\n">>}

PayloadsOf(event) ==
  CASE event = "console" -> {"log"}
    [] event \in {"pageerror", "crash"} -> {NoStr}
    [] event \in {"request", "response", "requestfailed"} -> RequestKeys
    [] event \in {"stdout", "stderr"} -> DataChunks

Emitted == Total([id \in ColIds |-> Len(cols[id].produced)])

AttachTo(id, kind, maxEntries) ==
  /\ cols[id].kind = "none"
  /\ \A j \in ColIds : j < id => cols[j].kind # "none"
  /\ cols' = [cols EXCEPT ![id] = [NoCollector EXCEPT !.kind = kind, !.maxEntries = maxEntries]]
  /\ listeners' = onEach(listeners, id, Installed(kind))
  /\ fired' = [Quiet EXCEPT !.op = "attach", !.id = id]
  /\ UNCHANGED <<held, sysVars, colVars>>
  /\ UNCHANGED runVars
  /\ UNCHANGED callVars
  /\ UNCHANGED shutVars
  /\ UNCHANGED capVars
  /\ UNCHANGED sdVars
  /\ UNCHANGED killVars
  /\ UNCHANGED launchVars
  /\ UNCHANGED netVars

\* The Map of the registry that holds collectors of a kind.
mapOf(kind) ==
  CASE kind = "console" -> "consoleCollectors"
    [] kind = "error" -> "errorCollectors"
    [] kind = "network" -> "networkCollectors"
    [] kind = "process" -> "processCollectors"

\* set*Collector(sessionId, identifier, collector) with an attached collector,
\* as the tools call it right after attaching: Map.set, replacing what the
\* key held. A collector object is not registered under two keys at once.
SetAttachedCollector(id, sessionId, identifier, total) ==
  /\ cols[id].kind # "none"
  /\ Total(alloc.collectors) < total
  /\ \A kind \in KindSet : \A i \in DOMAIN collectors[kind] : collectors[kind][i].v.col # id
  /\ LET kind == mapOf(cols[id].kind) IN
     /\ collectors' = [collectors EXCEPT ![kind] =
                         MapSet(@, Key(sessionId, identifier),
                                [id |-> <<kind, alloc.collectors[kind] + 1>>,
                                 page |-> MapGet(pageRefs, Key(sessionId, identifier)).id,
                                 col |-> id])]
     /\ alloc' = [alloc EXCEPT !.collectors[kind] = @ + 1]
  /\ last' = Other
  /\ UNCHANGED <<sessions, resources, pageRefs, autoCaptures, iters, tasks, reqVars>>
  /\ UNCHANGED colVars
  /\ UNCHANGED emVars
  /\ UNCHANGED runVars
  /\ UNCHANGED callVars
  /\ UNCHANGED shutVars
  /\ UNCHANGED capVars
  /\ UNCHANGED sdVars
  /\ UNCHANGED killVars
  /\ UNCHANGED launchVars
  /\ UNCHANGED netVars

\* Somebody else listens on the same emitter.
ForeignOn(event) ==
  /\ Len(SelectSeq(listeners, LAMBDA l : l.owner = 0)) < MaxForeign
  /\ listeners' = on(listeners, 0, Listener(event, "foreign"))
  /\ fired' = [Quiet EXCEPT !.op = "on", !.event = event]
  /\ UNCHANGED <<cols, held, sysVars, colVars>>
  /\ UNCHANGED runVars
  /\ UNCHANGED callVars
  /\ UNCHANGED shutVars
  /\ UNCHANGED capVars
  /\ UNCHANGED sdVars
  /\ UNCHANGED killVars
  /\ UNCHANGED launchVars
  /\ UNCHANGED netVars

Emit(event, x) ==
  /\ Emitted < MaxEmits
  /\ cols' = deliver(cols, listeners, event, x)
  /\ fired' = [Quiet EXCEPT !.op = "emit", !.event = event, !.arg = x,
                            !.to = Receivers(listeners, event)]
  /\ UNCHANGED <<listeners, held, sysVars, colVars>>
  /\ UNCHANGED runVars
  /\ UNCHANGED callVars
  /\ UNCHANGED shutVars
  /\ UNCHANGED capVars
  /\ UNCHANGED sdVars
  /\ UNCHANGED killVars
  /\ UNCHANGED launchVars
  /\ UNCHANGED netVars

DetachFrom(id) ==
  /\ cols[id].kind # "none"
  /\ cols[id].detached < MaxDetach
  /\ listeners' = detach(listeners, id, cols[id].kind)
  /\ cols' = [cols EXCEPT ![id].detached = @ + 1,
                          ![id].atDetach = IF cols[id].detached = 0 THEN cols[id].entries ELSE @]
  /\ fired' = [Quiet EXCEPT !.op = "detach", !.id = id]
  /\ UNCHANGED <<held, sysVars, colVars>>
  /\ UNCHANGED runVars
  /\ UNCHANGED callVars
  /\ UNCHANGED shutVars
  /\ UNCHANGED capVars
  /\ UNCHANGED sdVars
  /\ UNCHANGED killVars
  /\ UNCHANGED launchVars
  /\ UNCHANGED netVars

GetEntries(id) ==
  /\ cols[id].kind # "none"
  /\ held' = snapshot(id, cols[id].entries)
  /\ fired' = [Quiet EXCEPT !.op = "getEntries", !.id = id]
  /\ UNCHANGED <<listeners, cols, sysVars, colVars>>
  /\ UNCHANGED runVars
  /\ UNCHANGED callVars
  /\ UNCHANGED shutVars
  /\ UNCHANGED capVars
  /\ UNCHANGED sdVars
  /\ UNCHANGED killVars
  /\ UNCHANGED launchVars
  /\ UNCHANGED netVars

Mine == [timestamp |-> 0]

\* The caller changes the array it was given.
Mutated(arr, how) ==
  CASE how = "push" -> Append(arr, Mine)
    [] how = "shift" -> IF arr = <<>> THEN arr ELSE Tail(arr)

MutateHeld(how) ==
  /\ held.from # 0
  /\ how = "push" => Mine \notin Range(Deref(held, cols))
  /\ LET arr == Mutated(Deref(held, cols), how) IN
     IF held.alias
     THEN /\ cols' = [cols EXCEPT ![held.from].entries = arr]
          /\ held' = [held EXCEPT !.was = arr]
     ELSE /\ held' = [held EXCEPT !.arr = arr, !.was = arr]
          /\ UNCHANGED cols
  /\ fired' = [Quiet EXCEPT !.op = "mutate", !.id = held.from]
  /\ UNCHANGED <<listeners, sysVars, colVars>>
  /\ UNCHANGED runVars
  /\ UNCHANGED callVars
  /\ UNCHANGED shutVars
  /\ UNCHANGED capVars
  /\ UNCHANGED sdVars
  /\ UNCHANGED killVars
  /\ UNCHANGED launchVars
  /\ UNCHANGED netVars

\* The events the attached collectors listen to.
ListenedEvents ==
  IF cols[1].kind = "none" THEN {}
  ELSE {Installed(cols[1].kind)[i].event : i \in DOMAIN Installed(cols[1].kind)}

\* Two collectors alike on the same emitter, and a listener of somebody
\* else; one payload for each event.
NextEmitter ==
  \/ \E kind \in BufferKinds, n \in 0..MaxN : AttachTo(1, kind, n)
  \/ AttachTo(MaxAttached, cols[1].kind, cols[1].maxEntries)
  \/ \E event \in ListenedEvents : ForeignOn(event)
  \/ \E event \in ListenedEvents : Emit(event, CHOOSE x \in PayloadsOf(event) : TRUE)
  \/ \E id \in ColIds : DetachFrom(id)

SpecEmitter == Init /\ [][NextEmitter]_vars

\* Collectors detached by their owner or by the destruction of the session
\* they are registered under, on a page whose context destroy closes first.
NextDetach ==
  \/ Create
  \/ \E sid \in CreatedIds : SetPageRef(sid, <<"A">>, "web", TRUE, FALSE, MaxNavRefs)
  \/ \E kind \in BufferKinds \ {"network"} : AttachTo(1, kind, MaxN)
  \/ AttachTo(MaxAttached, cols[1].kind, cols[1].maxEntries)
  \/ \E event \in ListenedEvents : Emit(event, CHOOSE x \in PayloadsOf(event) : TRUE)
  \/ \E id \in ColIds : DetachFrom(id)
  \/ \E id \in ColIds, sid \in CreatedIds : SetAttachedCollector(id, sid, <<"A">>, MaxCollectors)
  \/ \E t \in TaskIds, sid \in CreatedIds : Destroy(t, sid, {})
  \/ \E t \in TaskIds, ok \in BOOLEAN : ContextClosed(t, ok, {})

SpecDetach == Init /\ [][NextDetach]_vars

\* One collector and a caller that keeps the array getEntries gave it.
NextSnapshot ==
  \/ \E kind \in BufferKinds, n \in 0..MaxN : AttachTo(1, kind, n)
  \/ \E event \in ListenedEvents : \E x \in PayloadsOf(event) : Emit(event, x)
  \/ GetEntries(1)
  \/ \E how \in {"push", "shift"} : MutateHeld(how)

SpecSnapshot == Init /\ [][NextSnapshot]_vars

\* Workflows of valid steps while console and error collectors of the session
\* hear events, before and during the steps.
QuietWorkflows ==
  {<<Step("click", TRUE, FALSE, NoStr, FALSE)>>,
   <<Step("click", TRUE, FALSE, NoStr, FALSE), Step("screenshot", FALSE, FALSE, NoStr, FALSE)>>}
NextDelta ==
  \/ Create
  \/ \E sid \in CreatedIds : SetPageRef(sid, <<"A">>, "web", TRUE, TRUE, MaxNavRefs)
  \/ \E id \in ColIds, kind \in {"console", "error"}, n \in 1..MaxN :
       (id = 1 => kind = "console") /\ (id > 1 => n = MaxN) /\ AttachTo(id, kind, n)
  \/ \E event \in {"console", "pageerror"} :
       Emit(event, CHOOSE x \in PayloadsOf(event) : TRUE)
  \/ \E id \in ColIds, sid \in CreatedIds, ident \in {<<"A">>, <<"B">>} :
       (id = 1 => ident = <<"A">>) /\ SetAttachedCollector(id, sid, ident, MaxCollectors)
  \/ \E sid \in CreatedIds, steps \in QuietWorkflows : RunWorkflowTool(sid, steps, NoStr)
  \/ \E ok \in BOOLEAN : StepSettled(ok)
  \/ \E ok \in BOOLEAN : ScreenshotSettled(ok)

SpecDelta == Init /\ [][NextDelta]_vars

\* ------------------------------------------------------------------ assertions
AssertTypes ==
  {"exists", "not-exists", "visible", "hidden", "text-equals", "text-contains",
   "has-attribute", "attribute-equals", "enabled", "disabled", "checked", "not-checked",
   "value-equals"}

\* The kinds whose case begins with locator.waitFor({ state: "attached", timeout }).
WaitsForAttachment == AssertTypes \ {"exists", "not-exists", "hidden"}

Null == [defined |-> FALSE, value |-> <<"null">>]
NoAttribute == [present |-> FALSE, value |-> <<>>]
Attr(value) == [present |-> TRUE, value |-> value]

\* What the locator answers: count(), whether waitFor resolves within the
\* timeout, isVisible(), innerText(), getAttribute() (null when absent),
\* isEnabled(), isChecked(), inputValue(), and whether a query other than the
\* attachment wait rejects.
OneElement ==
  [count |-> 1, attaches |-> TRUE, visible |-> TRUE, innerText |-> <<"x">>,
   attribute |-> NoAttribute, enabled |-> TRUE, checked |-> FALSE, inputValue |-> <<>>,
   rejects |-> FALSE]

\* Every combination of attachment and rejection with each answer varied in turn.
Elements ==
  UNION {
    {[OneElement EXCEPT !.attaches = a, !.rejects = r, !.count = c, !.visible = v] :
       c \in {0, 1, 2, 3, 10}, v \in BOOLEAN}
    \cup {[OneElement EXCEPT !.attaches = a, !.rejects = r, !.innerText = t] :
           t \in {<<"x">>, <<" ", "x", " ">>, <<"x", "y">>, <<"\t", "x", "\n">>,
                  <<"U+00A0", "x", "U+000B">>, <<"U+FEFF", "x">>}}
    \cup {[OneElement EXCEPT !.attaches = a, !.rejects = r, !.attribute = t] :
           t \in {NoAttribute, Attr(<<>>), Attr(<<"x">>)}}
    \cup {[OneElement EXCEPT !.attaches = a, !.rejects = r, !.enabled = e, !.checked = k] :
           e \in BOOLEAN, k \in BOOLEAN}
    \cup {[OneElement EXCEPT !.attaches = a, !.rejects = r, !.inputValue = t] :
           t \in {<<>>, <<"x">>}}
    : a \in BOOLEAN, r \in BOOLEAN}

\* The kinds that read step.expected take it absent, plain and blank-edged.
AssertSteps ==
  {step \in [assertType : AssertTypes \cup {"focused"}, selector : {<<"#a">>},
             expected : {Undefined, Str(<<"x">>), Str(<<" ", "x", " ">>)},
             attribute : {<<"id">>}] :
     step.assertType \in {"text-equals", "text-contains", "attribute-equals", "value-equals"}
     \/ step.expected = Undefined}

RECURSIVE trimStart(_)
trimStart(text) ==
  IF text # <<>> /\ Head(text) \in WhiteSpace THEN trimStart(Tail(text)) ELSE text

\* String.prototype.trim
trim(text) == trimEnd(trimStart(text))

\* String.prototype.includes
includes(text, part) ==
  \E i \in 0..Len(text) : i + Len(part) <= Len(text) /\ SubSeq(text, i + 1, i + Len(part)) = part

\* "${value}" in a template literal: the value between double quotes
quoted(value) == <<"\"">> \o value \o <<"\"">>

\* `${step.expected}` in a template literal
show(field) == IF field.defined THEN field.value ELSE <<"undefined">>

\* value === step.expected for a string value
same(value, field) == field.defined /\ field.value = value

\* `${count}` in a template literal: the decimal digits of a count
RECURSIVE decimal(_)
decimal(n) ==
  LET digits == <<"0", "1", "2", "3", "4", "5", "6", "7", "8", "9">> IN
  IF n < 10 THEN <<digits[n + 1]>> ELSE decimal(n \div 10) \o <<digits[(n % 10) + 1]>>

\* `found (${count} match${count > 1 ? "es" : ""})`
matches(count) ==
  <<"found (">> \o decimal(count) \o <<IF count > 1 THEN " matches)" ELSE " match)">>

Thrown == [threw |-> TRUE, record |-> <<>>]
AssertionResult(step, passed, expected, actual) ==
  [threw |-> FALSE,
   record |-> [passed |-> passed, assertType |-> step.assertType, selector |-> step.selector,
               expected |-> expected, actual |-> actual,
               message |-> IF expected = Null THEN "Unknown assertion type"
                           ELSE IF passed THEN "PASS" ELSE "FAIL"]]

\* The catch of the attachment wait.
notFound(step, expected) ==
  AssertionResult(step, FALSE, expected, Str(<<"element not found in DOM">>))

\* The same case without the catch around the wait.
afterWaitThrows(el, step, expected, passed, actual) ==
  IF ~el.attaches \/ el.rejects THEN Thrown
  ELSE AssertionResult(step, passed, expected, actual)

\* A case that waits for attachment and then reads one answer of the locator.
afterWait(el, step, expected, passed, actual) ==
  IF ~el.attaches THEN notFound(step, expected)
  ELSE IF el.rejects THEN Thrown
  ELSE AssertionResult(step, passed, expected, actual)

evaluateAssertion(el, step) ==
  CASE step.assertType = "exists" ->
         IF el.rejects THEN Thrown
         ELSE AssertionResult(step, el.count > 0, Str(<<"element exists in DOM">>),
                Str(IF el.count > 0 THEN matches(el.count) ELSE <<"not found">>))
    [] step.assertType = "not-exists" ->
         IF el.rejects THEN Thrown
         ELSE AssertionResult(step, el.count = 0, Str(<<"element does not exist in DOM">>),
                Str(IF el.count = 0 THEN <<"not found">> ELSE matches(el.count)))
    [] step.assertType = "visible" ->
         afterWait(el, step, Str(<<"element is visible">>), el.visible,
                   Str(IF el.visible THEN <<"visible">> ELSE <<"hidden">>))
    [] step.assertType = "hidden" ->
         IF el.rejects THEN Thrown
         ELSE IF el.count = 0
         THEN AssertionResult(step, TRUE, Str(<<"element is hidden">>),
                              Str(<<"not in DOM (hidden)">>))
         ELSE AssertionResult(step, ~el.visible, Str(<<"element is hidden">>),
                              Str(IF el.visible THEN <<"visible">> ELSE <<"hidden">>))
    [] step.assertType = "text-equals" ->
         afterWait(el, step, Str(<<"text equals ">> \o quoted(show(step.expected))),
                   same(trim(el.innerText), step.expected), Str(quoted(trim(el.innerText))))
    [] step.assertType = "text-contains" ->
         afterWait(el, step, Str(<<"text contains ">> \o quoted(show(step.expected))),
                   includes(el.innerText,
                            IF step.expected.defined THEN step.expected.value ELSE <<>>),
                   Str(quoted(el.innerText)))
    [] step.assertType = "has-attribute" ->
         afterWait(el, step, Str(<<"has attribute ">> \o quoted(step.attribute)),
                   el.attribute.present,
                   Str(IF el.attribute.present
                       THEN <<"attribute ">> \o quoted(step.attribute) \o <<" present (value: ">>
                            \o quoted(el.attribute.value) \o <<")">>
                       ELSE <<"attribute ">> \o quoted(step.attribute) \o <<" not found">>))
    [] step.assertType = "attribute-equals" ->
         afterWait(el, step,
                   Str(<<"attribute ">> \o quoted(step.attribute) \o <<" equals ">>
                       \o quoted(show(step.expected))),
                   el.attribute.present /\ same(el.attribute.value, step.expected),
                   Str(IF el.attribute.present THEN quoted(el.attribute.value)
                       ELSE <<"attribute not found">>))
    [] step.assertType = "enabled" ->
         afterWait(el, step, Str(<<"element is enabled">>), el.enabled,
                   Str(IF el.enabled THEN <<"enabled">> ELSE <<"disabled">>))
    [] step.assertType = "disabled" ->
         afterWait(el, step, Str(<<"element is disabled">>), ~el.enabled,
                   Str(IF el.enabled THEN <<"enabled">> ELSE <<"disabled">>))
    [] step.assertType = "checked" ->
         afterWait(el, step, Str(<<"element is checked">>), el.checked,
                   Str(IF el.checked THEN <<"checked">> ELSE <<"not checked">>))
    [] step.assertType = "not-checked" ->
         afterWait(el, step, Str(<<"element is not checked">>), ~el.checked,
                   Str(IF el.checked THEN <<"checked">> ELSE <<"not checked">>))
    [] step.assertType = "value-equals" ->
         afterWait(el, step, Str(<<"value equals ">> \o quoted(show(step.expected))),
                   same(el.inputValue, step.expected), Str(quoted(el.inputValue)))
    [] OTHER -> AssertionResult(step, FALSE, Null, Null)

Evaluate(el, step) ==
  /\ ret' = [op |-> "evaluateAssertion", arg |-> [el |-> el, step |-> step],
             value |-> evaluateAssertion(el, step)]
  /\ UNCHANGED <<sysVars, colVars, emVars, runVars>>
  /\ UNCHANGED shutVars
  /\ UNCHANGED capVars
  /\ UNCHANGED sdVars
  /\ UNCHANGED killVars
  /\ UNCHANGED launchVars
  /\ UNCHANGED netVars

NextEvaluate == \E el \in Elements, step \in AssertSteps : Evaluate(el, step)

SpecEvaluate == Init /\ [][NextEvaluate]_vars

\* ------------------------------------------------------------------ ShutdownManager
Others == <<sysVars, colVars, emVars, runVars, callVars, shutVars, capVars>>

\* register: push the handler.
Register ==
  /\ sd.pc # "exited"
  /\ Len(sd.handlers) < MaxHandlers
  /\ sd' = [sd EXCEPT !.handlers = Append(@, [invoked |-> 0, state |-> "registered"])]
  /\ UNCHANGED Others
  /\ UNCHANGED killVars
  /\ UNCHANGED launchVars
  /\ UNCHANGED netVars

\* A cleanup that ignores the flag.
cleanupAgain(s) == FALSE

\* cleanup, its guard: a call made while shutting down returns at once.
cleanupIgnored(s) == s.isShuttingDown

\* cleanup, from the guard to the await: raise the flag and call every
\* handler of the array, in order; Promise.allSettled waits for the promises
\* of these calls.
cleanupBegin(s) ==
  [s EXCEPT !.isShuttingDown = TRUE,
            !.first = Len(s.handlers),
            !.pc = "awaiting",
            !.handlers = [h \in 1..Len(s.handlers) |->
                            [invoked |-> s.handlers[h].invoked + 1, state |-> "pending"]]]

\* A cleanup call, by a signal handler of main or by any caller.
Cleanup ==
  /\ sd.pc # "exited"
  /\ sd.calls < MaxCleanups
  /\ LET s == [sd EXCEPT !.calls = @ + 1] IN
     sd' = IF cleanupIgnored(s) THEN s ELSE cleanupBegin(s)
  /\ UNCHANGED Others
  /\ UNCHANGED killVars
  /\ UNCHANGED launchVars
  /\ UNCHANGED netVars

\* The promise a handler returned settles. ok: it is fulfilled.
HandlerSettles(h, ok) ==
  /\ sd.pc # "exited"
  /\ h \in 1..Len(sd.handlers)
  /\ sd.handlers[h].state = "pending"
  /\ sd' = [sd EXCEPT !.handlers[h].state = IF ok THEN "fulfilled" ELSE "rejected"]
  /\ UNCHANGED Others
  /\ UNCHANGED killVars
  /\ UNCHANGED launchVars
  /\ UNCHANGED netVars

\* Promise.allSettled resolves when every promise it was given has settled;
\* cleanup logs the rejections and calls process.exit(0).
CleanupExits ==
  /\ sd.pc = "awaiting"
  /\ \A h \in 1..sd.first : sd.handlers[h].state # "pending"
  /\ sd' = [sd EXCEPT !.pc = "exited"]
  /\ UNCHANGED Others
  /\ UNCHANGED killVars
  /\ UNCHANGED launchVars
  /\ UNCHANGED netVars

NextCleanup ==
  \/ Register
  \/ Cleanup
  \/ \E h \in 1..MaxHandlers, ok \in BOOLEAN : HandlerSettles(h, ok)
  \/ CleanupExits

SpecCleanup == Init /\ [][NextCleanup]_vars

\* ------------------------------------------------------------------ killProcessTree
NoShutdownWork == <<sysVars, colVars, emVars, runVars, callVars, shutVars, capVars, sdVars>>

\* The child processes a release can meet: running; one whose spawn failed
\* (no pid); as Node leaves them after an exit with a code (exitCode set) or
\* after a signal ended them (signalCode set, exitCode still null).
Children ==
  {Running,
   [Running EXCEPT !.pid = "undefined", !.alive = FALSE],
   [Running EXCEPT !.exitCode = "0", !.alive = FALSE],
   [Running EXCEPT !.exitCode = "1", !.alive = FALSE],
   [Running EXCEPT !.signalCode = "SIGTERM", !.alive = FALSE]}

\* What tree-kill does with its callback: it reports success, it reports an
\* error, or it never calls back.
TreeKillOutcomes == {"success", "error", "never"}

\* The tree-kill callback: clearTimeout, log either way, resolve().
callback(error) == "resolved"

\* A promise settles once: resolve() on a settled promise does nothing.
settleOnce(pc, to) == IF pc = "pending" THEN to ELSE pc

\* killProcessTree(pid, timeoutMs): the executor arms the timer and calls
\* treeKill(pid, "SIGTERM", callback); the promise is pending.
killProcessTree(k) ==
  [k EXCEPT !.pc = "pending", !.timer = "armed", !.callback = "waiting",
            !.treeKills = @ + 1]

\* killProcessTree called on the pid of a child in any state.
KillProcessTree(child) ==
  /\ kp.pc \in {"idle", "resolved"} /\ kp.release \in {"idle", "resolved"}
  /\ kp.calls < MaxKills
  /\ child.pid # "undefined"
  /\ kp' = killProcessTree([kp EXCEPT !.child = child, !.calls = @ + 1, !.release = "idle",
                                      !.killed = 0, !.treeKills = 0])
  /\ UNCHANGED NoShutdownWork
  /\ UNCHANGED launchVars
  /\ UNCHANGED netVars

\* The cleanup of the Resource createProcessResource made for the child:
\* return when the child has an exit code, else await killProcessTree when
\* it has a pid.
Release(child) ==
  /\ kp.pc \in {"idle", "resolved"} /\ kp.release \in {"idle", "resolved"}
  /\ kp.calls < MaxKills
  /\ LET k == [kp EXCEPT !.child = child, !.calls = @ + 1, !.pc = "idle",
                         !.timer = "none", !.callback = "none",
                         !.killed = 0, !.treeKills = 0]
     IN kp' = IF child.exitCode # "null" THEN [k EXCEPT !.release = "resolved"]
              ELSE IF child.pid # "undefined"
              THEN killProcessTree([k EXCEPT !.release = "pending"])
              ELSE [k EXCEPT !.release = "resolved"]
  /\ UNCHANGED NoShutdownWork
  /\ UNCHANGED launchVars
  /\ UNCHANGED netVars

\* tree-kill signals the process of the pid: a live one ends by the signal;
\* a child that has ended is not signalled, whatever tree-kill was called for.
TreeKillSignals ==
  /\ kp.callback = "waiting"
  /\ kp.child.alive
  /\ kp' = [kp EXCEPT !.child.alive = FALSE, !.child.signalCode = "SIGTERM",
                      !.killed = @ + 1]
  /\ UNCHANGED NoShutdownWork
  /\ UNCHANGED launchVars
  /\ UNCHANGED netVars

\* tree-kill calls back, with an error or without, before or after the
\* timer fired.
CallbackFires(error) ==
  /\ kp.callback = "waiting"
  /\ kp' = [kp EXCEPT !.callback = "fired",
                      !.timer = IF @ = "armed" THEN "cleared" ELSE @,
                      !.pc = settleOnce(@, callback(error))]
  /\ UNCHANGED NoShutdownWork
  /\ UNCHANGED launchVars
  /\ UNCHANGED netVars

\* The timer fires: log, resolve().
TimeoutFires ==
  /\ kp.timer = "armed"
  /\ kp' = [kp EXCEPT !.timer = "fired", !.pc = settleOnce(@, "resolved")]
  /\ UNCHANGED NoShutdownWork
  /\ UNCHANGED launchVars
  /\ UNCHANGED netVars

\* The release resumes after its await of killProcessTree.
ReleaseResumes ==
  /\ kp.release = "pending"
  /\ kp.pc \in {"resolved", "rejected"}
  /\ kp' = [kp EXCEPT !.release = kp.pc]
  /\ UNCHANGED NoShutdownWork
  /\ UNCHANGED launchVars
  /\ UNCHANGED netVars

\* The running child ends by itself, with a code or by a signal.
ChildExits(code) ==
  /\ kp.child.alive
  /\ kp.pc = "pending"
  /\ kp' = [kp EXCEPT !.child.alive = FALSE,
                      !.child.exitCode = code,
                      !.child.signalCode = IF code = "null" THEN "SIGKILL" ELSE "null"]
  /\ UNCHANGED NoShutdownWork
  /\ UNCHANGED launchVars
  /\ UNCHANGED netVars

NextKill ==
  \/ \E child \in Children : KillProcessTree(child)
  \/ \E child \in Children : Release(child)
  \/ TreeKillSignals
  \/ \E error \in BOOLEAN : CallbackFires(error)
  \/ TimeoutFires
  \/ ReleaseResumes
  \/ \E code \in {"0", "null"} : ChildExits(code)

\* Node runs a timer that is due and resumes an await whose promise settled;
\* nothing makes tree-kill call back.
SpecKill ==
  Init /\ [][NextKill]_vars /\ WF_vars(TimeoutFires) /\ WF_vars(ReleaseResumes)

\* ------------------------------------------------------------------ addResource during destroy
\* A destroy call on the session is suspended in a close or in a cleanup.
DestroySuspended(sessionId) ==
  \E t \in Calls :
    /\ tasks[t].sid = sessionId
    /\ tasks[t].pc \in {"contextClose", "browserClose", "cleanup"}

\* addResource called by a request that runs while destroy is suspended.
AddResourceDuring(sessionId) ==
  /\ DestroySuspended(sessionId)
  /\ AddResourceCall(sessionId)

\* Resources registered before destroy and while it is suspended, with
\* destroy calls that may overlap and detaches that may throw.
NextLate ==
  \/ Create
  \/ \E sid \in KnownArgs : AddResource(sid)
  \/ \E sid \in KnownArgs : AddResourceDuring(sid)
  \/ \E sid \in KnownArgs, hc \in BOOLEAN, hb \in BOOLEAN :
       SetPageRef(sid, <<"A">>, "web", hc, hb, MaxNavRefs)
  \/ \E sid \in CreatedIds :
       SetCollector("consoleCollectors", sid, <<"A">>, MaxPerKind, MaxPerKind)
  \/ \E t \in Calls, sid \in KnownArgs, bad \in BadSets : Destroy(t, sid, bad)
  \/ \E t \in Calls, ok \in BOOLEAN, bad \in BadSets : ContextClosed(t, ok, bad)
  \/ \E t \in Calls, ok \in BOOLEAN, bad \in BadSets : BrowserClosed(t, ok, bad)
  \/ \E t \in Calls, ok \in BOOLEAN : CleanupSettled(t, ok)

SpecLate == Init /\ [][NextLate]_vars

\* ------------------------------------------------------------------ launch_web_server, launch_windows_exe
LaunchTools == {"launch_web_server", "launch_windows_exe"}
NoRegistryWork == <<colVars, emVars, runVars, callVars, shutVars, capVars, sdVars, killVars>>

LastChild == Len(launch.children)

\* sessionManager.setProcessCollector(sessionId, identifier, collector).
setProcessCollector(cs, sessionId, identifier, n) ==
  [cs EXCEPT !["processCollectors"] =
     MapSet(@, Key(sessionId, identifier), [id |-> <<"processCollectors", n>>, page |-> 0, col |-> 0])]

\* Both tools up to their first await: the session is looked up; if it is
\* there the child is spawned and its process collector stored. When
\* spawnCrossPlatform throws, the outer catch replies at once: no child, no
\* collector and no Resource. launch_web_server registers the process
\* Resource before it waits for readiness, launch_windows_exe waits a second
\* for a spawn error first.
Launch(tool, sessionId, spawnThrows) ==
  /\ launch.pc \in {"idle", "done"}
  /\ LastChild < MaxChildren
  /\ alloc.resources < MaxResources
  /\ alloc.collectors["processCollectors"] < MaxCollectors
  /\ IF get(sessionId) = NoStr
     THEN /\ launch' = [launch EXCEPT !.pc = "done", !.tool = tool, !.sid = sessionId,
                                      !.result = "Session not found"]
          /\ UNCHANGED <<collectors, resources, alloc>>
     ELSE IF spawnThrows
     THEN /\ launch' = [launch EXCEPT !.pc = "done", !.tool = tool, !.sid = sessionId,
                                      !.result =
                                         IF tool = "launch_web_server"
                                         THEN "Unexpected error launching web server"
                                         ELSE "Failed to launch Windows executable"]
          /\ UNCHANGED <<collectors, resources, alloc>>
     ELSE LET n == alloc.collectors["processCollectors"] + 1
              early == tool = "launch_web_server"
              child == [tool |-> tool, sid |-> sessionId, running |-> TRUE, exitCode |-> "null",
                        resource |-> IF early THEN alloc.resources + 1 ELSE 0,
                        returned |-> FALSE, exited |-> FALSE]
          IN /\ collectors' = setProcessCollector(collectors, sessionId, <<tool>>, n)
             /\ resources' = IF early
                             THEN addResource(sessionId, [id |-> alloc.resources + 1]).resources
                             ELSE resources
             /\ alloc' = [alloc EXCEPT !.collectors["processCollectors"] = n,
                                       !.resources = IF early THEN @ + 1 ELSE @]
             /\ launch' = [launch EXCEPT !.children = Append(@, child), !.pc = "waiting",
                                         !.tool = tool, !.sid = sessionId, !.result = "none"]
  /\ last' = Other
  /\ UNCHANGED <<sessions, pageRefs, autoCaptures, iters, tasks, reqVars>>
  /\ UNCHANGED NoRegistryWork
  /\ UNCHANGED netVars

\* launch_windows_exe after its wait: an error if the child has an exit
\* code, else createProcessResource and addResource, which throws when the
\* session is gone; the throw is caught and reported.
exeAfterWait(sessionId, exited) ==
  IF exited THEN [result |-> "Process exited immediately", register |-> FALSE]
  ELSE IF addResource(sessionId, [id |-> 0]).threw
  THEN [result |-> "Failed to launch Windows executable", register |-> FALSE]
  ELSE [result |-> "running", register |-> TRUE]

\* The second of launch_windows_exe has passed with no spawn error.
ExeWaitOver ==
  /\ launch.pc = "waiting" /\ launch.tool = "launch_windows_exe"
  /\ LET child == launch.children[LastChild]
         done == exeAfterWait(launch.sid, child.exitCode # "null")
     IN /\ resources' = IF done.register
                        THEN addResource(launch.sid, [id |-> alloc.resources + 1]).resources
                        ELSE resources
        /\ alloc' = IF done.register THEN [alloc EXCEPT !.resources = @ + 1] ELSE alloc
        /\ launch' = [launch EXCEPT !.pc = "done", !.result = done.result,
                                    !.children[LastChild].returned = TRUE,
                                    !.children[LastChild].resource =
                                       IF done.register THEN alloc.resources + 1 ELSE 0]
  /\ last' = Other
  /\ UNCHANGED <<sessions, pageRefs, autoCaptures, collectors, iters, tasks, reqVars>>
  /\ UNCHANGED NoRegistryWork
  /\ UNCHANGED netVars

\* The child of launch_windows_exe emits 'error' during the wait (the spawn
\* failed): the await rejects and the catch reports it. No process runs.
ExeSpawnFailed ==
  /\ launch.pc = "waiting" /\ launch.tool = "launch_windows_exe"
  /\ launch.children[LastChild].running
  /\ launch' = [launch EXCEPT !.pc = "done", !.result = "Failed to launch Windows executable",
                              !.children[LastChild].returned = TRUE,
                              !.children[LastChild].running = FALSE,
                              !.children[LastChild].exitCode = "-2"]
  /\ last' = Other
  /\ UNCHANGED <<regVars, iters, tasks, reqVars, alloc>>
  /\ UNCHANGED NoRegistryWork
  /\ UNCHANGED netVars

\* The child of launch_web_server emits 'error' (the spawn failed): the
\* listener logs it. No process runs and no 'exit' event follows, so
\* detectServerReady keeps waiting for the port.
WebServerSpawnFailed ==
  /\ launch.pc = "waiting" /\ launch.tool = "launch_web_server"
  /\ launch.children[LastChild].running
  /\ launch' = [launch EXCEPT !.children[LastChild].running = FALSE,
                              !.children[LastChild].exitCode = "-2"]
  /\ last' = Other
  /\ UNCHANGED <<regVars, iters, tasks, reqVars, alloc>>
  /\ UNCHANGED NoRegistryWork
  /\ UNCHANGED netVars

\* detectServerReady settled: the tool returns "ready" or the error. It
\* resolves when the output matches or the port answers, whoever listens on
\* it; the child's 'exit' event rejects it.
ServerReadySettled(ok) ==
  /\ launch.pc = "waiting" /\ launch.tool = "launch_web_server"
  /\ ok => ~launch.children[LastChild].exited
  /\ launch' = [launch EXCEPT !.pc = "done",
                              !.result = IF ok THEN "ready" ELSE "Web server failed to become ready",
                              !.children[LastChild].returned = TRUE]
  /\ last' = Other
  /\ UNCHANGED <<regVars, iters, tasks, reqVars, alloc>>
  /\ UNCHANGED NoRegistryWork
  /\ UNCHANGED netVars

\* A child ends by itself: with an exit code, or by a signal (exitCode
\* stays null).
ChildEnds(p, code) ==
  /\ p \in 1..LastChild
  /\ launch.children[p].running
  /\ launch' = [launch EXCEPT !.children[p].running = FALSE, !.children[p].exitCode = code,
                              !.children[p].exited = TRUE]
  /\ last' = Other
  /\ UNCHANGED <<regVars, iters, tasks, reqVars, alloc>>
  /\ UNCHANGED NoRegistryWork
  /\ UNCHANGED netVars

NextLaunch ==
  \/ Create
  \/ \E tool \in LaunchTools, sid \in KnownArgs, spawnThrows \in BOOLEAN :
       Launch(tool, sid, spawnThrows)
  \/ ExeWaitOver
  \/ ExeSpawnFailed
  \/ WebServerSpawnFailed
  \/ \E ok \in BOOLEAN : ServerReadySettled(ok)
  \/ \E p \in 1..MaxChildren, code \in {"1", "null"} : ChildEnds(p, code)
  \/ \E t \in TaskIds, sid \in KnownArgs, bad \in BadSets : Destroy(t, sid, bad)
  \/ \E t \in TaskIds, ok \in BOOLEAN : CleanupSettled(t, ok)

SpecLaunch == Init /\ [][NextLaunch]_vars

\* ------------------------------------------------------------------ two sessions side by side
\* Every registry operation, on either of two sessions. The page references
\* own no handle, so that destroy suspends in the cleanups only.
NextIsolation ==
  \/ CreateWithin(MaxIds)
  \/ \E sid \in CreatedIds : AddResource(sid)
  \/ \E sid \in CreatedIds : SetPageRef(sid, <<"A">>, "web", FALSE, FALSE, MaxRefs)
  \/ \E sid \in CreatedIds :
       SetCollector("consoleCollectors", sid, <<"A">>, MaxPerKind, MaxPerKind)
  \/ \E sid \in CreatedIds, d \in CaptureData : SetAutoCapture(sid, d)
  \/ \E sid \in CreatedIds : RemovePageRef(sid, <<"B">>)
  \/ \E sid \in CreatedIds : RekeyIdentifier(sid, <<"A">>, <<"B">>)
  \/ \E t \in TaskIds, sid \in CreatedIds : Destroy(t, sid, {})
  \/ \E t \in TaskIds : CleanupSettled(t, TRUE)

SpecIsolation == Init /\ [][NextIsolation]_vars

\* ------------------------------------------------------------------ network timing
NoNetWork ==
  <<sysVars, colVars, emVars, runVars, callVars, shutVars, capVars, sdVars, killVars, launchVars>>

\* requestKey: `${request.method()} ${request.url()}`.
requestKey(method, url) == <<method, " ", url>>

\* The requests a page makes: two URLs, one method.
Urls == {"/a", "/b"}

\* durationMs: Date.now() - startTime when the table has the key, undefined
\* otherwise.
durationMs(pending, key, now) ==
  IF MapHas(pending, key)
  THEN [defined |-> TRUE, ms |-> now - MapGet(pending, key).start]
  ELSE [defined |-> FALSE, ms |-> 0]

InFlightRequests == {i \in 1..Len(net.requests) : net.requests[i].state = "sent"}

\* attachNetworkCollector: an empty table, the three handlers registered.
NetAttach ==
  /\ ~net.attached
  /\ net' = [net EXCEPT !.attached = TRUE]
  /\ UNCHANGED NoNetWork

\* Time passes.
NetTick ==
  /\ net.now < MaxNow
  /\ net' = [net EXCEPT !.now = @ + 1]
  /\ UNCHANGED NoNetWork

\* The page sends a request; requestHandler, if attached, sets the table's
\* entry for its key to Date.now().
NetRequest(url) ==
  /\ Len(net.requests) < MaxRequests
  /\ LET key == requestKey("GET", url)
         crowded == \E i \in InFlightRequests : net.requests[i].key = key
         request == [key |-> key, start |-> net.now, observed |-> net.attached,
                     state |-> "sent", crowded |-> crowded]
     IN net' = [net EXCEPT
                  !.requests = [i \in 1..Len(@) |->
                                  IF @[i].state = "sent" /\ @[i].key = key
                                  THEN [@[i] EXCEPT !.crowded = TRUE] ELSE @[i]]
                               \o <<request>>,
                  !.pendingRequests = IF net.attached
                                      THEN MapSet(@, key, [start |-> net.now])
                                      ELSE @]
  /\ UNCHANGED NoNetWork

\* The response of a request in flight arrives, or the request fails:
\* responseHandler, failedHandler. Both read the table, delete the key and
\* push the entry.
NetSettled(i, status) ==
  /\ i \in InFlightRequests
  /\ LET request == net.requests[i]
         entry == [request |-> i, key |-> request.key, status |-> status,
                   durationMs |-> durationMs(net.pendingRequests, request.key, net.now)]
     IN net' = [net EXCEPT
                  !.requests[i].state = "settled",
                  !.pendingRequests = IF net.attached THEN MapDelete(@, request.key) ELSE @,
                  !.entries = IF net.attached THEN Append(@, entry) ELSE @]
  /\ UNCHANGED NoNetWork

NextNetwork ==
  \/ NetAttach
  \/ NetTick
  \/ \E url \in Urls : NetRequest(url)
  \/ \E i \in 1..MaxRequests, status \in {200, 0} : NetSettled(i, status)

SpecNetwork == Init /\ [][NextNetwork]_vars

\* ------------------------------------------------------------------ tool-registered pages
\* Page references as the tools leave them: screenshot_web registers a web
\* page under its URL, launch_electron the window under "electron"; the
\* navigate tool and the navigate step of run_workflow follow page.goto.
NextRound ==
  \/ Create
  \/ \E sid \in KnownArgs, url \in Identifiers : SetPageRef(sid, url, "web", TRUE, TRUE, MaxRefs)
  \/ \E sid \in KnownArgs : SetPageRef(sid, Electron, "electron", FALSE, FALSE, MaxRefs)
  \/ \E t \in TaskIds, sid \in KnownArgs, url \in Identifiers, pid \in PageArgs \cup {Electron} :
       Navigate(t, sid, url, pid)
  \/ \E t \in TaskIds, ok \in BOOLEAN : NavigateGotoSettled(t, ok)
  \/ \E t \in TaskIds, ok \in BOOLEAN : NavigateScreenshotSettled(t, ok)
  \/ \E t \in TaskIds, sid \in KnownArgs, url \in Identifiers, pid \in PageArgs \cup {Electron} :
       RunWorkflow(t, sid, url, pid)
  \/ \E t \in TaskIds, ok \in BOOLEAN : WorkflowGotoSettled(t, ok)
  \/ \E t \in TaskIds, ok \in BOOLEAN : WorkflowScreenshotSettled(t, ok)

SpecRound == Init /\ [][NextRound]_vars

\* ------------------------------------------------------------------ claims: destroy
ResourceIds(sessionId) == [i \in 1..Len(resources[sessionId]) |-> resources[sessionId][i].id]
Ended(t) == tasks[t].pc = "done" /\ tasks[t].live
KeysUnder(m, sessionId) == {k \in MapKeys(m) : startsWith(k, Prefix(sessionId))}

\* C1: a destroy call on a live session, once it has ended, has called the
\* cleanup of every resource of the session exactly once, in registration
\* order, whatever failed before.
C1_ReleasesEveryResource ==
  \A t \in TaskIds : Ended(t) => tasks[t].released = ResourceIds(tasks[t].sid)

\* C2: a destroy call never ends by rejecting, and when it has ended the
\* session is no longer registered.
C2_DestroyNeverRejects ==
  \A t \in TaskIds :
    tasks[t].pc = "done" =>
      /\ tasks[t].result = "resolved"
      /\ get(tasks[t].sid) = NoStr

\* C3: a destroy call for an id that is not registered (never created, or
\* already destroyed) returns normally, calls no close, detach or cleanup and
\* leaves every Map of the registry as it was.
C3_DestroyUnknownIsNoOp ==
  [][\A t \in TaskIds :
       (tasks'[t] # tasks[t] /\ tasks'[t].pc = "done" /\ ~tasks'[t].live) =>
         /\ UNCHANGED regVars
         /\ tasks'[t].result = "resolved"
         /\ tasks'[t].closed = <<>>
         /\ tasks'[t].detached = <<>>
         /\ tasks'[t].released = <<>>]_vars

\* A second destroy of a destroyed session that still has a collector keyed
\* under its id has returned.
C3_Witness ==
  \E t \in TaskIds :
    /\ tasks[t].pc = "done" /\ ~tasks[t].live
    /\ tasks[t].sid \in CreatedIds
    /\ tasks[t].had # {}
    /\ CollectorsUnder(collectors, tasks[t].sid) = tasks[t].had

\* What must be true of the registry when a destroy call on a live session ends.
SweptClean(t) ==
  /\ KeysUnder(pageRefs', tasks'[t].sid) = {}
  /\ CollectorsUnder(collectors', tasks'[t].sid) = {}
  /\ ~MapHas(autoCaptures', tasks'[t].sid)
  /\ tasks'[t].had \subseteq Range(tasks'[t].detached)
  /\ tasks'[t].sid \notin Range(sessions')

Ends(t) == tasks'[t] # tasks[t] /\ tasks'[t].pc = "done" /\ tasks'[t].live

\* C4: at the step that ends a destroy call on a live session, nothing is
\* keyed under the session any more, every collector that was keyed under it
\* when the call began has had its detach called, and the session is gone.
C4_NothingLeftAfterDestroy ==
  [][\A t \in TaskIds : Ends(t) => SweptClean(t)]_vars

\* In the destroy calls in which no detach threw, every cleanup was called,
\* once and in registration order.
ResolvedDestroyReleasedAll ==
  \A t \in TaskIds :
    (Ended(t) /\ tasks[t].result = "resolved") => tasks[t].released = ResourceIds(tasks[t].sid)

\* ------------------------------------------------------------------ claims: re-keying
RegistryAfter ==
  [sessions |-> sessions', pageRefs |-> pageRefs', autoCaptures |-> autoCaptures',
   collectors |-> collectors', iters |-> iters']

\* What the registry stores under a key: pairs of a Map and the object's id.
Stored(r, key, kinds) ==
  (IF MapHas(r.pageRefs, key) THEN {<<"pageRefs", MapGet(r.pageRefs, key).id>>} ELSE {})
  \cup {<<kind, MapGet(r.collectors[kind], key).id>> :
          kind \in {kd \in kinds : MapHas(r.collectors[kd], key)}}

\* Everything stored under (sid, a) is stored under (sid, b) after the step,
\* the same objects, and nothing is left under (sid, a).
MovedBy(e, kinds) ==
  /\ Stored(RegistryAfter, Key(e.sid, e.a), kinds) = {}
  /\ Stored(Registry, Key(e.sid, e.a), kinds) \subseteq Stored(RegistryAfter, Key(e.sid, e.b), kinds)

\* C5: rekeyIdentifier(S, A, B) with A # B moves the page reference and every
\* collector stored under (S, A) to (S, B): afterwards nothing is found under
\* (S, A) and the same objects are found under (S, B).
C5_RekeyMovesEverything ==
  [][(last'.op = "rekeyIdentifier" /\ last'.a # last'.b) => MovedBy(last', KindSet)]_vars

\* A rekeyIdentifier that found all five Maps populated under the old key.
C5_Witness ==
  /\ last.op = "rekeyIdentifier"
  /\ last.a # last.b
  /\ last.n = 1 + Len(CollectorKinds)
  /\ Cardinality(Stored(Registry, Key(last.sid, last.b), KindSet)) = last.n

\* C6: rekeyIdentifier leaves every Map unchanged that has no entry under
\* (S, A); when no Map has one, the whole registry is unchanged.
C6_RekeyAbsentIsNoOp ==
  [][last'.op = "rekeyIdentifier" =>
       LET oldKey == Key(last'.sid, last'.a) IN
       /\ ~MapHas(pageRefs, oldKey) => pageRefs' = pageRefs
       /\ \A kind \in KindSet :
            ~MapHas(collectors[kind], oldKey) => collectors'[kind] = collectors[kind]
       /\ Stored(Registry, oldKey, KindSet) = {} => UNCHANGED regVars]_vars

\* A rekeyIdentifier that moved one object and passed over a Map which had
\* an entry under the new key only.
C6_Witness ==
  /\ last.op = "rekeyIdentifier"
  /\ last.a # last.b
  /\ last.n = 1
  /\ Cardinality(Stored(Registry, Key(last.sid, last.b), KindSet)) >= 2

\* C7: in no state, whatever requests interleave at their awaits (the
\* page.goto of the navigate tool and of a workflow's navigate step among
\* them), is a page's reference stored under one identifier while a collector
\* of that page is stored under another.
C7_RefAndCollectorsTogether ==
  \A kind \in KindSet : \A i \in DOMAIN collectors[kind] : \A j \in DOMAIN pageRefs :
    (collectors[kind][i].v.page = pageRefs[j].v.id) => collectors[kind][i].k = pageRefs[j].k

\* The navigate tool has re-keyed a page with collectors to a new URL.
NavigateMovedRefAndCollectors ==
  /\ last.op = "navigate"
  /\ last.a # last.b
  /\ last.n >= 3
  /\ \E kind \in KindSet : \E i \in DOMAIN collectors[kind] : \E j \in DOMAIN pageRefs :
       /\ collectors[kind][i].v.page = pageRefs[j].v.id
       /\ pageRefs[j].k = Key(last.sid, last.b)
       /\ pageRefs[j].v.url = last.b

\* C8: a successful navigate step of executeWorkflow, from identifier A to
\* url B, leaves the page reference and every console, error and network
\* collector that was under (S, A) under (S, B), and none under (S, A).
C8_WorkflowNavigateRekeys ==
  [][(last'.op = "workflowNavigate" /\ last'.a # last'.b) =>
       MovedBy(last', {"consoleCollectors", "errorCollectors", "networkCollectors"})]_vars

\* ------------------------------------------------------------------ claims: buffers
LastN(s, n) == SubSeq(s, Len(s) - n + 1, Len(s))

\* C9: once a collector with maximum N has pushed N + k entries, k >= 0,
\* getEntries() is the last N of them, in the order they were pushed.
C9_BufferKeepsLastN ==
  (attached.kind # "none" /\ Len(produced) >= attached.maxEntries)
    => getEntries = LastN(produced, attached.maxEntries)

\* C10: a collector with maximum N >= 0 never buffers more than N entries,
\* whichever of its handlers pushed them.
C10_BufferNeverExceedsMax ==
  attached.kind # "none" => Len(getEntries) <= attached.maxEntries

\* With a maximum of at least one, both statements hold.
BufferBoundedFromOne ==
  (attached.kind # "none" /\ attached.maxEntries >= 1) =>
    /\ Len(getEntries) <= attached.maxEntries
    /\ Len(produced) >= attached.maxEntries => getEntries = LastN(produced, attached.maxEntries)

\* ------------------------------------------------------------------ claims: snapshots
\* C11: the array getEntries() returned reads the same whatever the collector
\* appends or evicts afterwards (it changes only by what its holder does to
\* it), and what the holder does to it leaves the collector's buffer alone.
C11_SnapshotIsACopy ==
  [][/\ held'.from # 0 => Deref(held', cols') = held'.was
     /\ fired'.op = "mutate" => cols' = cols]_vars

\* The holder has pushed onto its array; since the call the collector has
\* evicted an entry the array holds and appended one it does not hold.
C11_Witness ==
  /\ held.from # 0
  /\ Mine \in Range(held.arr)
  /\ \E e \in Range(held.arr) : e # Mine /\ e \notin Range(cols[held.from].entries)
  /\ \E e \in Range(cols[held.from].entries) : e \notin Range(held.arr)

\* ------------------------------------------------------------------ claims: detach
\* A collector has a listener registered for the event.
Hears(id, event) ==
  \E i \in DOMAIN listeners : listeners[i].owner = id /\ listeners[i].event = event

\* C12: detach() of a collector takes off the emitter the listeners of that
\* collector, all of them and no other, and leaves every buffer as it is; a
\* second detach() changes nothing; and the listeners that stay registered,
\* those of other collectors included, are the ones later events reach.
C12_DetachRemovesOwnListenersOnly ==
  [][/\ fired'.op = "detach" =>
          /\ listeners' = SelectSeq(listeners, LAMBDA l : l.owner # fired'.id)
          /\ \A id \in ColIds : cols'[id].entries = cols[id].entries
          /\ cols[fired'.id].detached > 0 => listeners' = listeners
     /\ fired'.op = "emit" =>
          \A id \in ColIds :
            IF Hears(id, fired'.event)
            THEN fired'.event # "request" => Len(cols'[id].produced) > Len(cols[id].produced)
            ELSE cols'[id] = cols[id]]_vars

\* The first collector was detached a second time while the second one and a
\* foreign listener stay registered; the second one has received events since.
C12_Witness ==
  /\ fired.op = "detach"
  /\ fired.id = 1
  /\ cols[1].detached = MaxDetach
  /\ \E i \in DOMAIN listeners : listeners[i].owner = 0
  /\ \E i \in DOMAIN listeners : listeners[i].owner = MaxAttached
  /\ Len(cols[MaxAttached].produced) > Len(cols[1].produced)

\* C13: once detach() of a collector was called, getEntries() returns what it
\* returned at that moment, whatever events follow.
C13_NoEntriesAfterDetach ==
  \A id \in ColIds : cols[id].detached > 0 => cols[id].entries = cols[id].atDetach

\* An event of its kind was emitted after a collector with entries was
\* detached, and reached the other collector.
C13_Witness ==
  /\ fired.op = "emit"
  /\ cols[1].detached > 0
  /\ cols[1].entries # << >>
  /\ fired.to = <<MaxAttached>>
  /\ Len(cols[MaxAttached].produced) > Len(cols[1].produced)

\* The destruction of its session detached a collector with entries while the
\* other collector of the page, registered under a session still alive, went
\* on listening: a later event reached that one alone.
DetachedByDestroy ==
  /\ fired.op = "emit"
  /\ fired.to = <<MaxAttached>>
  /\ cols[1].detached = 1
  /\ cols[1].entries # << >>
  /\ \E t \in TaskIds : tasks[t].pc = "done" /\ tasks[t].off = <<1>>
  /\ Len(cols[MaxAttached].produced) > Len(cols[1].produced)

\* A collector that destroy detached has no listener left on the emitter.
SweptCollectorsListenNoMore ==
  \A t \in TaskIds : \A id \in Range(tasks[t].off) :
    \A i \in DOMAIN listeners : listeners[i].owner # id

\* ------------------------------------------------------------------ claims: network
\* C14: every response and every requestfailed event a network collector
\* hears adds exactly one entry, for that request, to its buffer; the entry is
\* timed exactly when a request was pending under the same "method url", and
\* the event clears that pending request and no other.
C14_EveryResponseProducesOneEntry ==
  [][(fired'.op = "emit" /\ fired'.event \in {"response", "requestfailed"}) =>
       \A id \in ColIds :
         Hears(id, fired'.event) =>
           LET c == cols[id]
               d == cols'[id]
               e == d.produced[Len(d.produced)]
           IN /\ Len(d.produced) = Len(c.produced) + 1
              /\ d.entries # << >> /\ d.entries[Len(d.entries)] = e
              /\ e.key = fired'.arg
              /\ e.status = (IF fired'.event = "response" THEN 200 ELSE 0)
              /\ e.timed = MapHas(c.pendingRequests, fired'.arg)
              /\ ~MapHas(d.pendingRequests, fired'.arg)
              /\ \A key \in RequestKeys \ {fired'.arg} :
                   MapGet(d.pendingRequests, key) = MapGet(c.pendingRequests, key)]_vars

\* A failed request was recorded while another request stays pending; the
\* collector holds a timed entry and an entry of a response without request.
C14_Witness ==
  /\ fired.op = "emit"
  /\ fired.event = "requestfailed"
  /\ cols[1].pendingRequests # << >>
  /\ \E i, j \in DOMAIN cols[1].entries :
       cols[1].entries[i].timed /\ ~cols[1].entries[j].timed /\ cols[1].entries[j].status = 200

\* ------------------------------------------------------------------ claims: resolving the page
\* Where the page references registered for a session sit in the Map, and the
\* identifier each one is registered under.
Under(sessionId) == {i \in DOMAIN pageRefs : startsWith(pageRefs[i].k, Prefix(sessionId))}
IdentifierIn(key, sessionId) == SubSeq(key, Len(Prefix(sessionId)) + 1, Len(key))
RECURSIVE RegisteredIdentifiers(_, _)
RegisteredIdentifiers(m, sessionId) ==
  IF m = <<>> THEN <<>>
  ELSE (IF startsWith(Head(m).k, Prefix(sessionId))
        THEN <<IdentifierIn(Head(m).k, sessionId)>> ELSE <<>>)
       \o RegisteredIdentifiers(Tail(m), sessionId)

\* C15: getActivePage without an identifier, on a live session: with no page
\* reference it fails and names no alternative; with exactly one it succeeds
\* with that page reference; with n >= 2 it fails and lists n alternatives.
C15_AutoSelectsOnlyASinglePage ==
  (last.op = "getActivePage" /\ last.a = NoStr /\ last.sid \in Range(sessions)) =>
    LET n == Cardinality(Under(last.sid))
        res == resolved.result
    IN /\ n = 0 => (~res.success /\ res.ref = Absent /\ res.available = <<>>)
       /\ n = 1 => (res.success /\ \A i \in Under(last.sid) : res.ref = pageRefs[i].v)
       /\ n >= 2 => (~res.success /\ res.ref = Absent /\ Len(res.available) = n)

\* A request without identifier found two pages and was given both as
\* alternatives.
C15_Witness ==
  /\ last.op = "getActivePage"
  /\ last.a = NoStr
  /\ last.sid \in Range(sessions)
  /\ Cardinality(Under(last.sid)) = 2
  /\ ~resolved.result.success
  /\ Len(resolved.result.available) = 2

\* C16: getActivePage fails for an unknown session with nothing read from the
\* page references; given an identifier it returns the page reference stored
\* under (S, identifier) and no other, and when nothing is stored there it
\* fails and lists the identifiers of all page references registered for S.
C16_IdentifierIsLookedUpDirectly ==
  last.op = "getActivePage" =>
    LET res == resolved.result
        key == Key(last.sid, last.a)
    IN /\ last.sid \notin Range(sessions) => res = NotFound
       /\ (last.sid \in Range(sessions) /\ last.a # NoStr) =>
            IF MapHas(pageRefs, key)
            THEN /\ res.success
                 /\ res.ref = MapGet(pageRefs, key)
                 /\ res.identifier = last.a
            ELSE /\ ~res.success
                 /\ res.ref = Absent
                 /\ res.available = RegisteredIdentifiers(pageRefs, last.sid)

\* The same, with the identifiers listed whenever every Electron window of
\* the session is registered under "electron".
ListsIdentifiersUnlessElectronMoved ==
  last.op = "getActivePage" =>
    LET res == resolved.result
        key == Key(last.sid, last.a)
    IN /\ last.sid \notin Range(sessions) => res = NotFound
       /\ (last.sid \in Range(sessions) /\ last.a # NoStr) =>
            IF MapHas(pageRefs, key)
            THEN /\ res.success
                 /\ res.ref = MapGet(pageRefs, key)
                 /\ res.identifier = last.a
            ELSE /\ ~res.success
                 /\ res.ref = Absent
                 /\ Len(res.available) = Cardinality(Under(last.sid))
                 /\ (\A i \in Under(last.sid) :
                       pageRefs[i].v.type = "electron" =>
                         pageRefs[i].k = Key(last.sid, Electron))
                      => res.available = RegisteredIdentifiers(pageRefs, last.sid)

\* A request named an identifier that is not registered while one page is,
\* under the URL a navigation moved it to; the failure lists that URL.
ListedAfterNavigate ==
  /\ last.op = "getActivePage"
  /\ last.sid \in Range(sessions)
  /\ last.a # NoStr
  /\ ~MapHas(pageRefs, Key(last.sid, last.a))
  /\ \E t \in TaskIds : navs[t].result = "ok"
  /\ ~resolved.result.success
  /\ Len(resolved.result.available) = 1
  /\ resolved.result.available[1] # last.a

\* ------------------------------------------------------------------ claims: workflow
\* The request found its session and its page.
Ran == wf.pc # "idle" /\ wf.outcome \notin {"sessionNotFound", "pageNotFound"}
FailedResults == {j \in DOMAIN wf.results : ~wf.results[j].success}
Threw == {wf.results[j].stepIndex : j \in {h \in DOMAIN wf.results : wf.results[h].error = "thrown"}}
AssertFalse == {j - 1 : j \in {h \in DOMAIN wf.steps :
                                 wf.steps[h].action = "assert" /\ ~wf.steps[h].passes}}
Least(S) == CHOOSE k \in S : \A h \in S : k <= h

\* C17: once a step has failed, the workflow is over: the executor has
\* returned at that step, no action of a later step is dispatched against the
\* page, nothing is awaited for a later step and no later step has a
\* StepResult.
C17_StopsOnFirstFailure ==
  \A j \in FailedResults :
    /\ wf.pc = "done"
    /\ wf.i = wf.results[j].stepIndex
    /\ \A d \in Range(wf.dispatched) : d <= wf.results[j].stepIndex
    /\ \A h \in DOMAIN wf.results : wf.results[h].stepIndex <= wf.results[j].stepIndex
    /\ Len(wf.outcomes) <= wf.results[j].stepIndex + 1

\* The second of three steps threw after the first had succeeded; the third
\* was never dispatched.
C17_Witness ==
  /\ wf.pc = "done"
  /\ wf.outcome = "returned"
  /\ Len(wf.steps) = 3
  /\ wf.dispatched = <<0, 1>>
  /\ wf.results[1].success
  /\ FailedResults = {2}

\* C18: a workflow whose first failing step (its action throws, or it is an
\* assert step whose assertion is false) has index k returns k + 1
\* StepResults, completedSteps = k and failedStep = k, the last StepResult of
\* a failed assert step carrying the assertion with passed: false; a workflow
\* without failing step returns one StepResult per step, completedSteps = n
\* and no failedStep.
C18_ResultCountsFollowFirstFailure ==
  (/\ Ran
   /\ wf.pc = "done"
   /\ \A j \in DOMAIN wf.steps :
        wf.steps[j].action = "assert" \/ validateStep(wf.steps[j], j - 1) = Valid) =>
    LET F == Threw \cup AssertFalse
        n == Len(wf.steps)
        res == wf.result
    IN /\ wf.outcome = "returned"
       /\ IF F = {}
          THEN Len(res.steps) = n /\ res.completedSteps = n /\ res.failedStep = -1
          ELSE LET k == Least(F) IN
               /\ Len(res.steps) = k + 1
               /\ res.completedSteps = k
               /\ res.failedStep = k
               /\ wf.steps[k + 1].action = "assert" => res.steps[k + 1].assertion = "failed"

\* For the actions the executor knows (click, type, navigate, wait,
\* screenshot) the counts are as stated.
ThrownFailureCounts ==
  (wf.pc = "done" /\ wf.outcome = "returned") =>
    LET n == Len(wf.steps)
        res == wf.result
    IN IF Threw = {}
       THEN Len(res.steps) = n /\ res.completedSteps = n /\ res.failedStep = -1
       ELSE LET k == Least(Threw) IN
            Len(res.steps) = k + 1 /\ res.completedSteps = k /\ res.failedStep = k

\* C19: the i-th StepResult is the one of step i; there are never more
\* StepResults than steps, and there are fewer when a step failed that was
\* not the last one.
C19_ResultsInStepOrder ==
  /\ \A j \in DOMAIN wf.results : wf.results[j].stepIndex = j - 1
  /\ Len(wf.results) <= Len(wf.steps)
  /\ wf.outcome = "returned" => wf.result.steps = wf.results
  /\ (\E j \in FailedResults : wf.results[j].stepIndex < Len(wf.steps) - 1) =>
       Len(wf.results) < Len(wf.steps)
  /\ wf.outcome = "validationFailed" => Len(wf.results) < Len(wf.steps)

\* Two StepResults, of steps 0 and 1, were returned for a workflow of three
\* steps that stopped at its second step.
C19_Witness ==
  /\ wf.pc = "done"
  /\ Len(wf.steps) = 3
  /\ Len(wf.result.steps) = 2
  /\ wf.result.steps[1].stepIndex = 0
  /\ wf.result.steps[2].stepIndex = 1
  /\ wf.result.failedStep = 1
  /\ wf.result.completedSteps = 1

\* C20: when any step of the workflow fails validation, no action of any
\* step is dispatched, no step completes, and the request ends as a
\* validation failure without StepResults.
C20_ValidatedBeforeAnyStepRuns ==
  (Ran /\ \E j \in DOMAIN wf.steps : validateStep(wf.steps[j], j - 1) # Valid) =>
    /\ wf.pc = "done"
    /\ wf.outcome = "validationFailed"
    /\ wf.dispatched = <<>>
    /\ wf.results = <<>>
    /\ wf.result.completedSteps = 0

\* A workflow whose first step is valid and whose second step is a click
\* without selector was rejected with nothing dispatched.
C20_Witness ==
  /\ wf.pc = "done"
  /\ wf.outcome = "validationFailed"
  /\ Len(wf.steps) >= 2
  /\ validateStep(wf.steps[1], 0) = Valid
  /\ wf.steps[2].action = "click" /\ ~wf.steps[2].selector
  /\ wf.dispatched = <<>>
  /\ wf.results = <<>>

\* ------------------------------------------------------------------ claims: step validation
\* The required fields of each action, as WorkflowStep documents them.
Required(raw) ==
  CASE raw.action = "click" -> truthy(raw.selector)
    [] raw.action = "type" -> truthy(raw.selector) /\ raw.text.defined
    [] raw.action = "navigate" -> truthy(raw.url)
    [] raw.action = "wait" -> truthy(raw.selector)
    [] raw.action = "screenshot" -> TRUE
    [] raw.action = "assert" -> truthy(raw.selector) /\ truthy(raw.assertType)
    [] OTHER -> FALSE

\* C21: validateStep accepts a step exactly when it is of one of the six
\* action kinds and carries the fields its kind requires (an empty text is
\* accepted for type); a rejected step gets an error naming its index.
C21_ValidExactlyWithRequiredFields ==
  ret.op = "validateStep" =>
    /\ (ret.value = Valid) <=> Required(ret.arg.step)
    /\ ret.value # Valid => ret.value.index = ret.arg.index

\* For click, type, navigate, wait, screenshot and unknown actions the
\* statement holds.
ValidExactlyWithRequiredFieldsButAssert ==
  (ret.op = "validateStep" /\ ret.arg.step.action # "assert") =>
    /\ (ret.value = Valid) <=> Required(ret.arg.step)
    /\ ret.value # Valid => ret.value.index = ret.arg.index

\* ------------------------------------------------------------------ claims: log deltas
SeqToBag(s) == [x \in Range(s) |-> Cardinality({i \in DOMAIN s : s[i] = x})]
Executed == {j \in DOMAIN wf.results : wf.results[j].error \in {"none", "thrown"}}

\* C22: the consoleDelta and the errorDelta of every executed step are the
\* console and error entries the session's collectors pushed during that
\* step, no more and no fewer, also with a full buffer and with several
\* collectors of one kind.
C22_DeltaIsWhatTheStepAppended ==
  \A j \in Executed :
    /\ SeqToBag(wf.results[j].consoleDelta) = SeqToBag(wf.results[j].consoleDuring)
    /\ SeqToBag(wf.results[j].errorDelta) = SeqToBag(wf.results[j].errorDuring)

\* Without any entry before the workflow, with the collectors registered as
\* they were when it began, one collector of each kind at most and no buffer
\* ever full, the deltas are as stated.
DeltaExactOnFreshUnfilledCollectors ==
  (/\ wf.before = 0
   /\ wf.registered = collectors
   /\ \A id \in ColIds : Len(cols[id].produced) <= cols[id].maxEntries
   /\ \A id, jd \in ColIds : (id # jd /\ cols[id].kind # "none") => cols[id].kind # cols[jd].kind) =>
    \A j \in Executed :
      /\ wf.results[j].consoleDelta = wf.results[j].consoleDuring
      /\ wf.results[j].errorDelta = wf.results[j].errorDuring

\* ------------------------------------------------------------------ claims: what fails a step
\* C30: a StepResult has success = false exactly when the action of its step
\* threw or its step is an assert step whose assertion is false; a screenshot
\* that cannot be taken after the action neither fails the step nor stops the
\* workflow.
C30_OnlyTheActionFailsAStep ==
  (Ran /\ wf.outcome # "validationFailed") =>
    /\ \A j \in DOMAIN wf.results :
         ~wf.results[j].success <=>
           \/ wf.outcomes[j] = "actionThrows"
           \/ wf.steps[j].action = "assert" /\ ~wf.steps[j].passes
    /\ \A j \in DOMAIN wf.outcomes :
         (wf.outcomes[j] = "captureThrows" /\ j < Len(wf.steps)) =>
           wf.i >= j

\* A step fails exactly when its action or the screenshot after it threw.
FailsWhenTryBlockThrows ==
  (Ran /\ wf.outcome # "validationFailed") =>
    \A j \in DOMAIN wf.results : ~wf.results[j].success <=> wf.outcomes[j] # "ok"

\* ------------------------------------------------------------------ claims: assertions
Evaluated == ret.op = "evaluateAssertion"

\* What each kind checks of the observed element; the waiting kinds need the
\* element attached, text-equals compares the text without surrounding blanks.
Satisfies(el, step) ==
  LET t == step.assertType
      given == IF step.expected.defined THEN step.expected.value ELSE <<>>
  IN IF t \in WaitsForAttachment
     THEN el.attaches /\
          (CASE t = "visible" -> el.visible
             [] t = "text-equals" -> step.expected.defined /\ trim(el.innerText) = given
             [] t = "text-contains" -> includes(el.innerText, given)
             [] t = "has-attribute" -> el.attribute.present
             [] t = "attribute-equals" ->
                  el.attribute.present /\ step.expected.defined /\ el.attribute.value = given
             [] t = "enabled" -> el.enabled
             [] t = "disabled" -> ~el.enabled
             [] t = "checked" -> el.checked
             [] t = "not-checked" -> ~el.checked
             [] t = "value-equals" -> step.expected.defined /\ el.inputValue = given)
     ELSE CASE t = "exists" -> el.count > 0
            [] t = "not-exists" -> el.count = 0
            [] t = "hidden" -> el.count = 0 \/ ~el.visible
            [] OTHER -> FALSE

\* The kind puts a query to the element besides the attachment wait.
Queries(el, step) ==
  \/ step.assertType \in AssertTypes \ WaitsForAttachment
  \/ step.assertType \in WaitsForAttachment /\ el.attaches

\* C23: evaluateAssertion throws only when a query of the element other than
\* the attachment wait rejects, never because the assertion is false; otherwise
\* it returns a record with the step's kind and selector whose passed flag is
\* true exactly when the observed element satisfies the kind's predicate (never
\* for an unknown kind), and a timed-out attachment wait gives passed = FALSE
\* with actual "element not found in DOM".
C23_AssertionFailureIsData ==
  Evaluated =>
    LET el == ret.arg.el
        step == ret.arg.step
        v == ret.value
    IN /\ v.threw <=> (el.rejects /\ Queries(el, step))
       /\ ~v.threw =>
            /\ v.record.assertType = step.assertType
            /\ v.record.selector = step.selector
            /\ v.record.passed <=> Satisfies(el, step)
            /\ v.record.message = "PASS" <=> v.record.passed
       /\ (step.assertType \in WaitsForAttachment /\ ~el.attaches) =>
            /\ ~v.threw
            /\ ~v.record.passed
            /\ v.record.actual = Str(<<"element not found in DOM">>)

\* A false text-equals assertion whose attachment wait timed out, returned as data.
C23_Witness ==
  /\ Evaluated
  /\ ret.arg.step.assertType = "text-equals"
  /\ ~ret.arg.el.attaches
  /\ ~ret.value.threw
  /\ ~ret.value.record.passed
  /\ ret.value.record.actual = Str(<<"element not found in DOM">>)

\* ------------------------------------------------------------------ claims: resources
\* C24: addResource on a session the registry does not hold throws "Session not
\* found" and leaves the registry as it was; on a live session it appends the
\* resource to the end of that session's list and changes no other part of
\* the registry.
C24_AddResourceAppendsOrFails ==
  [][(ret'.op = "addResource" /\ ret' # ret) =>
       LET S == ret'.arg.sessionId
           r == ret'.arg.resource
       IN IF S \notin Range(sessions)
          THEN /\ ret'.value = <<"Session not found: ">> \o S
               /\ UNCHANGED <<regVars, iters, tasks>>
          ELSE /\ ret'.value = <<>>
               /\ resources'[S] = Append(resources[S], r)
               /\ \A other \in DOMAIN resources \ {S} : resources'[other] = resources[other]
               /\ UNCHANGED <<sessions, pageRefs, autoCaptures, collectors, iters, tasks>>]_vars

\* A second resource has been appended behind the first of a live session.
C24_Witness ==
  /\ ret.op = "addResource"
  /\ ret.value = <<>>
  /\ ret.arg.sessionId \in Range(sessions)
  /\ Len(resources[ret.arg.sessionId]) = 2
  /\ resources[ret.arg.sessionId][2] = ret.arg.resource

\* A call on an ended session has failed after resources were registered.
AddResourceRefused ==
  /\ ret.op = "addResource"
  /\ ret.value # <<>>
  /\ ret.arg.sessionId \in CreatedIds
  /\ alloc.resources > 0

\* ------------------------------------------------------------------ claims: ending a session
Success(value) == value \in {"ended", "stopped"}

\* An end request on a session the registry does not hold is refused and
\* starts no teardown; one on a live session starts its destroy.
EndRequestChecksTheSession ==
  (ret'.op \in EndTools /\ ret' # ret) =>
    IF ret'.arg \notin Range(sessions)
    THEN ret'.value = "Session not found" /\ UNCHANGED <<regVars, resources, iters, tasks>>
    ELSE /\ ret'.value = "await destroy"
         /\ \E t \in TaskIds :
              tasks'[t] # tasks[t] /\ tasks'[t].sid = ret'.arg /\ tasks'[t].live

\* An id that has left the registry never comes back.
EndedStaysEnded ==
  \A id \in CreatedIds : id \notin Range(sessions) => id \notin Range(sessions')

\* The destroy the last end request awaited has settled.
EndSettled(t) ==
  /\ ret.op \in EndTools /\ ret.value = "await destroy"
  /\ tasks[t].live /\ tasks[t].sid = ret.arg /\ tasks[t].pc = "done"

\* C25: end_session and stop_process answer "Session not found", releasing
\* nothing, for a session that is unknown or already ended; on a live session
\* they destroy it and report success, whether the closes and cleanups of the
\* destroy succeed or reject, after which the session is gone, so a second
\* request for it is refused.
C25_FirstEndRequestSucceeds ==
  /\ [](\A t \in TaskIds : EndSettled(t) => Success(reply(t)) /\ ret.arg \notin Range(sessions))
  /\ [][EndRequestChecksTheSession /\ EndedStaysEnded]_vars

\* A second request for a session that the first one ended has been refused,
\* after the first released the session's resource.
SecondEndRequestRefused ==
  /\ ret.op \in EndTools
  /\ ret.value = "Session not found"
  /\ ret.arg \in CreatedIds
  /\ \E t \in TaskIds : tasks[t].sid = ret.arg /\ tasks[t].result = "resolved"
                        /\ tasks[t].released # <<>>

\* ------------------------------------------------------------------ claims: listing
Completed(t) == tasks[t].live /\ tasks[t].pc = "done" /\ tasks[t].result = "resolved"

\* What list() returns changes in two ways only: create appends the id it
\* returns, a destroy that completes takes its session's id out.
ListFollowsCreateAndDestroy ==
  \/ list' = list /\ alloc'.sessions = alloc.sessions
  \/ /\ alloc'.sessions = alloc.sessions + 1
     /\ list' = Append(list, UUID(alloc'.sessions))
  \/ /\ alloc'.sessions = alloc.sessions
     /\ \E t \in Calls :
          /\ tasks'[t].live /\ tasks'[t].pc = "done"
          /\ tasks'[t].result = "resolved"
          /\ tasks'[t].sid \in Range(list)
          /\ list' = SeqRemove(list, tasks'[t].sid)

\* C26: list() returns ids that create returned, each once; a session whose
\* destroy has completed is not listed; and the listing changes by create and
\* by completing destroys only, so a session whose destroy is still running
\* or was cut short stays listed: the listing is exactly the created ids not
\* yet destroyed.
C26_ListIsCreatedMinusDestroyed ==
  /\ [](/\ Range(list) \subseteq CreatedIds
        /\ Cardinality(Range(list)) = Len(list)
        /\ \A t \in Calls : Completed(t) => tasks[t].sid \notin Range(list))
  /\ [][ListFollowsCreateAndDestroy]_vars

\* Two sessions were created, the destroy of the first has completed, and
\* list() returns the second alone.
C26_Witness ==
  /\ alloc.sessions = 2
  /\ list = <<UUID(2)>>
  /\ \E t \in TaskIds : Completed(t) /\ tasks[t].sid = UUID(1) /\ tasks[t].released # <<>>

\* A destroy cut short by a throwing detach has ended and its session is
\* still listed.
CutShortStaysListed ==
  \E t \in TaskIds :
    /\ tasks[t].live /\ tasks[t].pc = "done" /\ tasks[t].result = "rejected"
    /\ tasks[t].sid \in Range(list)

\* ------------------------------------------------------------------ claims: shutdown
Settled == all.pc \in {"done", "exited"}
NothingKeyed ==
  /\ pageRefs = <<>>
  /\ autoCaptures = <<>>
  /\ \A kind \in KindSet : collectors[kind] = <<>>
EveryReleaseAttempted ==
  \A id \in CreatedIds : \A i \in 1..Len(resources[id]) :
    \E j \in 1..Len(all.released) : all.released[j] = resources[id][i].id

\* C27: once destroyAll has settled, and so before the process exits, list()
\* is empty, nothing is keyed under any session and the cleanup of every
\* resource of every session has been called.
C27_DestroyAllLeavesNothing ==
  Settled => list = <<>> /\ NothingKeyed /\ EveryReleaseAttempted

\* The same for a destroyAll in which no detach threw and during which no
\* request registered anything.
DestroyAllLeavesNothingWhenUndisturbed ==
  (Settled /\ all.result = "resolved" /\ alloc = all.began /\ autoCaptures = <<>>)
    => list = <<>> /\ NothingKeyed /\ EveryReleaseAttempted

\* The process exits only after destroyAll has settled.
ExitsAfterDestroyAll == all.pc = "exited" => all.result \in {"resolved", "rejected"}

\* destroyAll has destroyed two sessions, a resource of each released.
BothSessionsDestroyed ==
  /\ all.pc = "exited"
  /\ all.result = "resolved"
  /\ Len(all.ids) = 2
  /\ Len(all.released) = 2
  /\ list = <<>>

\* destroyAll was cut short at the first of two sessions.
DestroyAllCutShort ==
  /\ Settled
  /\ all.result = "rejected"
  /\ Len(all.ids) = 2
  /\ all.i = 1
  /\ alloc = all.began

\* destroyAll resolved although a session created while it ran is still listed.
CreatedDuringDestroyAll == Settled /\ all.result = "resolved" /\ list # <<>>

\* ------------------------------------------------------------------ claims: auto-capture
AllFinished == caps.navs > 0 /\ \A n \in 1..caps.navs : ~InFlight(n)
Slot == MapGet(autoCaptures, caps.sid)
Slots == Scan(autoCaptures, caps.sid)
LastStored == caps.stored[Len(caps.stored)]
\* The navigation that raised the latest event a handler was started for.
LatestEvent == caps.handlers[caps.navs].nav

AllStored == AllFinished /\ \A n \in 1..caps.navs : caps.handlers[n].pc = "stored"

\* C28: a session has at most one Auto-Capture slot, and once every handler
\* started by a navigation event has finished, each having stored its
\* capture, the slot holds the capture of the latest navigation event: stored
\* by that event's handler, showing that navigation's page, under that
\* page's URL.
C28_SlotHoldsLatestNavigation ==
  /\ Len(Slots) <= 1
  /\ AllStored =>
       /\ Len(Slots) = 1
       /\ LastStored = caps.navs
       /\ Slot.image = LatestEvent
       /\ Slot.url = LatestEvent

\* What the code keeps: at most one slot, holding what the handler that
\* stored last stored; it is the latest navigation's capture when the handlers
\* ran one after the other, the last one did not fail and the page has not
\* navigated since the navigation that started it.
SlotHoldsLastStored ==
  /\ Len(Slots) <= 1
  /\ caps.stored # <<>> =>
       /\ Len(Slots) = 1
       /\ Slot.image = caps.handlers[LastStored].shot
       /\ Slot.capturedAt = Len(caps.stored)
  /\ (/\ AllFinished
      /\ ~caps.overlapped
      /\ caps.handlers[caps.navs].pc = "stored"
      /\ caps.page = LatestEvent) =>
       LastStored = caps.navs /\ Slot.image = LatestEvent /\ Slot.url = LatestEvent

\* A single handler stored the page of a navigation that started no handler,
\* the listener having been taken off the page while the handler waited.
UnlistenedNavigationStored ==
  /\ caps.navs = 1
  /\ ~caps.listening
  /\ caps.handlers[1].pc = "stored"
  /\ caps.handlers[1].nav = 1
  /\ Slot.image = 2
  /\ Slot.url = 2

\* Every handler stored, the first one last: the slot shows the first
\* navigation's page under the URL of the third.
StaleCaptureStoredLast ==
  /\ AllStored
  /\ caps.navs = MaxNavEvents
  /\ Slot.image = 1
  /\ Slot.url = MaxNavEvents

\* ------------------------------------------------------------------ claims: teardown order
Closing(t) == tasks[t].pc \in {"contextClose", "browserClose"}
Releasing(t) == tasks[t].pc = "cleanup"
NothingUnder(r, sessionId) ==
  /\ KeysUnder(r.pageRefs, sessionId) = {}
  /\ \A kind \in KindSet : KeysUnder(r.collectors[kind], sessionId) = {}
  /\ sessionId \notin MapKeys(r.autoCaptures)

\* What holds of a destroy call on a live session wherever it stands.
PhasesInOrder(t) ==
  LET tk == tasks[t]
      registered == ResourceIds(tk.sid)
  IN tk.live =>
       /\ Closing(t) => tk.detached = <<>> /\ tk.released = <<>>
       /\ (Closing(t) \/ Releasing(t)) => get(tk.sid) = tk.sid /\ tk.sid \in Range(list)
       /\ Len(tk.released) <= Len(registered)
       /\ tk.released = SubSeq(registered, 1, Len(tk.released))
       /\ (tk.pc = "done" /\ tk.result = "resolved") =>
            tk.released = registered /\ tk.sid \notin Range(list)

\* What a step of a destroy call on a live session does: a close touches no
\* collector, slot or session; the step that leaves the page loop detaches
\* and removes the collectors, deletes the slot and calls the first cleanup,
\* page references gone; a release step touches nothing but the session, and
\* that only when it was the last.
PhaseSteps(t) ==
  (tasks'[t] # tasks[t] /\ tasks'[t].live) =>
    LET S == tasks'[t].sid IN
    /\ tasks'[t].pc \in {"contextClose", "browserClose"} =>
         UNCHANGED <<collectors, autoCaptures, sessions>>
    /\ (tasks[t].pc # "cleanup" /\ tasks'[t].pc \in {"cleanup", "done"}
        /\ tasks'[t].result # "rejected") =>
         /\ NothingUnder(Registry', S)
         /\ tasks'[t].pc = "cleanup" => Len(tasks'[t].released) = 1 /\ sessions' = sessions
    /\ tasks[t].pc = "cleanup" =>
         /\ UNCHANGED <<pageRefs, collectors, autoCaptures>>
         /\ tasks'[t].closed = tasks[t].closed /\ tasks'[t].detached = tasks[t].detached
         /\ sessions' # sessions => tasks'[t].pc = "done"

\* C29: destroy closes and removes the page references, then detaches and
\* removes the collectors, then deletes the Auto-Capture slot, then releases
\* the resources in registration order, and removes the session only after
\* the last release attempt: get and list report it while a release is pending.
C29_TeardownPhasesInOrder ==
  /\ [](\A t \in Calls : PhasesInOrder(t))
  /\ [][\A t \in Calls : PhaseSteps(t)]_vars

\* The same where one destroy call runs at a time.
PhasesInOrderOneAtATime ==
  /\ [](\A t \in TaskIds : PhasesInOrder(t))
  /\ [][\A t \in TaskIds : PhaseSteps(t)]_vars

\* A destroy that closed a page reference and detached a collector is waiting
\* for its second release, the session still listed and nothing keyed under it.
ReleasingInOrder ==
  \E t \in TaskIds :
    /\ tasks[t].live /\ Releasing(t)
    /\ tasks[t].closed # <<>> /\ tasks[t].detached # <<>>
    /\ Len(tasks[t].released) = 2
    /\ tasks[t].sid \in Range(list)
    /\ NothingUnder(Registry, tasks[t].sid)

\* A destroy call waits for a release it called while another call on the
\* same session has returned and taken the session out of the registry.
ReleasePendingAfterRemoval ==
  \E t \in Calls, u \in Calls :
    /\ t # u /\ tasks[t].sid = tasks[u].sid
    /\ tasks[t].live /\ Releasing(t)
    /\ tasks[u].live /\ tasks[u].pc = "done" /\ tasks[u].result = "resolved"
    /\ get(tasks[t].sid) = NoStr

\* ------------------------------------------------------------------ claims: cleanup
RegisteredFirst == 1..sd.first
HandlerSettled(h) == sd.handlers[h].state \in {"fulfilled", "rejected"}

\* C31: over any number of cleanup calls, every handler registered before
\* the first call is invoked exactly once, whether or not another handler
\* rejected, no handler is invoked twice, and the process exits only after
\* every invoked handler has settled.
C31_CleanupRunsHandlersOnce ==
  /\ \A h \in 1..Len(sd.handlers) : sd.handlers[h].invoked <= 1
  /\ sd.isShuttingDown = (sd.calls > 0)
  /\ sd.isShuttingDown =>
       /\ sd.pc # "idle"
       /\ \A h \in 1..Len(sd.handlers) : sd.handlers[h].invoked = 1 <=> h \in RegisteredFirst
  /\ sd.pc = "exited" => \A h \in RegisteredFirst : HandlerSettled(h)

\* The process has exited after two cleanup calls, one handler rejected and
\* a handler registered after it fulfilled.
C31_Witness ==
  /\ sd.pc = "exited"
  /\ sd.calls = 2
  /\ sd.first >= 2
  /\ \E h \in RegisteredFirst, k \in RegisteredFirst :
       h < k /\ sd.handlers[h].state = "rejected" /\ sd.handlers[k].state = "fulfilled"

\* ------------------------------------------------------------------ claims: killProcessTree
Exited(child) == ~child.alive /\ child.pid # "undefined"

\* C32: the promise of killProcessTree is never rejected and, once pending,
\* is eventually resolved, whether tree-kill reports success, reports an
\* error or never calls back; and the release of a process Resource whose
\* process has exited, with an exit code or by a signal, is a no-op: it
\* returns at once without calling tree-kill.
C32_KillAlwaysResolves ==
  /\ [](kp.pc # "rejected" /\ kp.release # "rejected")
  /\ (kp.pc = "pending") ~> (kp.pc = "resolved")
  /\ (kp.release = "pending") ~> (kp.release = "resolved")
  /\ [][\A child \in Children :
          (Exited(child) /\ kp'.release # "idle" /\ kp'.calls = kp.calls + 1 /\ kp'.child = child)
            => kp'.treeKills = 0 /\ kp'.release = "resolved" /\ kp'.pc = "idle"]_vars

\* The promise of killProcessTree is never rejected and, once pending, is
\* eventually resolved, and so is the release that awaits it.
KillPromiseAlwaysResolves ==
  /\ [](kp.pc # "rejected" /\ kp.release # "rejected")
  /\ (kp.pc = "pending") ~> (kp.pc = "resolved")
  /\ (kp.release = "pending") ~> (kp.release = "resolved")

\* The release of a process that has an exit code returns at once without
\* calling tree-kill.
ReleaseWithExitCodeReturns ==
  [][\A child \in Children :
       (child.exitCode # "null" /\ kp'.release # "idle" /\ kp'.calls = kp.calls + 1
          /\ kp'.child = child)
         => kp'.treeKills = 0 /\ kp'.release = "resolved" /\ kp'.pc = "idle"]_vars

\* tree-kill never called back and the timer resolved the promise; the
\* release that awaited it has returned.
KillResolvedByTimer ==
  /\ kp.callback = "waiting"
  /\ kp.timer = "fired"
  /\ kp.pc = "resolved"
  /\ kp.release = "resolved"

\* tree-kill reported an error and the promise is resolved.
KillErrorResolved ==
  kp.callback = "fired" /\ kp.timer = "cleared" /\ kp.pc = "resolved" /\ kp.killed = 0

\* The release of a process that had exited with a code returned at once.
ReleaseOfExitedIsNoOp ==
  /\ kp.child.exitCode = "1" /\ kp.release = "resolved" /\ kp.treeKills = 0 /\ kp.calls = 2

\* The release of a process a signal had ended called tree-kill.
ReleaseOfSignalledCallsTreeKill ==
  /\ kp.child.signalCode = "SIGTERM" /\ kp.child.exitCode = "null"
  /\ kp.release = "resolved" /\ kp.treeKills = 1 /\ kp.killed = 0

\* ------------------------------------------------------------------ claims: re-keying
\* The page references and collectors reachable through some key of a session.
ObjectsUnder(r, sessionId) ==
  {<<"page", ref.id>> : ref \in Range(getPageRefs(r, sessionId))}
    \cup UNION {{<<kind, c.id>> : c \in Range(getCollectors(r, kind, sessionId))} : kind \in KindSet}

RekeyStep == last'.op = "rekeyIdentifier"

\* An entry moved by the re-keying meets an entry under the new key.
Collides(r, sessionId, oldIdentifier, newIdentifier) ==
  LET oldKey == Key(sessionId, oldIdentifier)
      newKey == Key(sessionId, newIdentifier)
  IN /\ oldIdentifier # newIdentifier
     /\ \/ MapHas(r.pageRefs, oldKey) /\ MapHas(r.pageRefs, newKey)
        \/ \E kind \in KindSet : MapHas(r.collectors[kind], oldKey) /\ MapHas(r.collectors[kind], newKey)

\* C33: every page reference and every collector reachable through some key
\* of S before rekeyIdentifier(S, A, B) is reachable through some key of S
\* afterwards, also when an entry exists under (S, B) and when A = B.
C33_RekeyLosesNothing ==
  [][RekeyStep => ObjectsUnder(Registry, last'.sid) \subseteq ObjectsUnder(Registry', last'.sid)]_vars

\* The same where no moved entry meets an entry under the new key; A = B
\* included.
RekeyLosesNothingWithoutCollision ==
  [][(RekeyStep /\ ~Collides(Registry, last'.sid, last'.a, last'.b))
       => ObjectsUnder(Registry, last'.sid) = ObjectsUnder(Registry', last'.sid)]_vars

\* A re-keying onto itself moved a page reference and a collector.
RekeyedOntoItself ==
  /\ last.op = "rekeyIdentifier" /\ last.a = last.b /\ last.n >= 2
  /\ MapHas(pageRefs, Key(last.sid, last.a))

\* ------------------------------------------------------------------ claims: overlapping destroys
\* What a destroy call under way or ended has released and closed.
ReleasedBy(t) == IF tasks[t].live THEN Range(tasks[t].released) ELSE {}
ClosedBy(t) == IF tasks[t].live THEN Range(tasks[t].closed) ELSE {}

\* C34: no resource is released by two destroy calls and no context or
\* browser is closed by two, however the calls overlap.
C34_ReleasedAtMostOnce ==
  \A t \in Calls, u \in Calls :
    t # u => ReleasedBy(t) \cap ReleasedBy(u) = {} /\ ClosedBy(t) \cap ClosedBy(u) = {}

\* The same where one destroy call runs at a time: a call releases each
\* resource once and closes each handle once.
ReleasedOnceByEachCall ==
  \A t \in Calls :
    /\ Cardinality(Range(tasks[t].released)) = Len(tasks[t].released)
    /\ Cardinality(Range(tasks[t].closed)) = Len(tasks[t].closed)

\* Two destroy calls on a session are both waiting for the cleanup of its
\* one resource.
BothReleasing ==
  \E t \in Calls, u \in Calls :
    /\ t # u /\ tasks[t].sid = tasks[u].sid
    /\ tasks[t].pc = "cleanup" /\ tasks[u].pc = "cleanup"
    /\ tasks[t].released = tasks[u].released

\* Two destroy calls on a session are both waiting for the same browser to
\* close.
BothClosingTheBrowser ==
  \E t \in Calls, u \in Calls :
    /\ t # u
    /\ tasks[t].pc = "browserClose" /\ tasks[u].pc = "browserClose"
    /\ tasks[t].curRef = tasks[u].curRef

\* ------------------------------------------------------------------ claims: orphaned entries
\* The key is a key of a session that is in the sessions Map.
OwnedKey(key) == \E sessionId \in Range(sessions) : startsWith(key, Prefix(sessionId))

\* C35: every key of the page reference Map, of the four collector Maps
\* and of the Auto-Capture Map belongs to a session that is in the sessions
\* Map, under any interleaving of requests with destroy.
C35_NoOrphanedEntries ==
  /\ \A key \in MapKeys(pageRefs) : OwnedKey(key)
  /\ \A kind \in KindSet : \A key \in MapKeys(collectors[kind]) : OwnedKey(key)
  /\ \A sessionId \in MapKeys(autoCaptures) : sessionId \in Range(sessions)

\* setPageRef stores nothing for a session that is not in the sessions Map.
SetPageRefNeedsTheSession ==
  [][\A key \in MapKeys(pageRefs') \ MapKeys(pageRefs) :
       \E sessionId \in Range(sessions) : startsWith(key, Prefix(sessionId))]_vars

\* A destroyed session has an Auto-Capture slot, stored after its destroy
\* returned.
SlotOfADestroyedSession ==
  /\ sessions = <<>>
  /\ MapKeys(autoCaptures) # {}
  /\ \E t \in TaskIds : tasks[t].live /\ tasks[t].pc = "done" /\ tasks[t].result = "resolved"

\* A page reference stored while destroy was releasing resources outlives
\* the session.
PageRefOutlivesItsSession ==
  /\ sessions = <<>>
  /\ MapKeys(pageRefs) # {}
  /\ \E t \in TaskIds : tasks[t].live /\ tasks[t].pc = "done" /\ tasks[t].result = "resolved"

\* ------------------------------------------------------------------ claims: resources added during destroy
\* The destroy call t removes its session in this step.
Removes(t) ==
  /\ tasks'[t] # tasks[t]
  /\ tasks'[t].live /\ tasks'[t].pc = "done" /\ tasks'[t].result = "resolved"
  /\ tasks'[t].sid \in Range(sessions) \ Range(sessions')

\* C36: when destroy removes a session, every resource addResource has
\* registered for it has been released by that destroy call, those
\* registered while the call was suspended in a close or a cleanup included;
\* and the session leaves the registry in no other way.
C36_NoResourceDroppedUnreleased ==
  /\ [][\A t \in Calls :
          Removes(t) => tasks'[t].released = [i \in 1..Len(resources'[tasks'[t].sid]) |->
                                                resources'[tasks'[t].sid][i].id]]_vars
  /\ [][sessions' # sessions /\ Len(sessions') <= Len(sessions) => \E t \in Calls : Removes(t)]_vars
  /\ [](\A sessionId \in AllIds : sessionId \notin CreatedIds => resources[sessionId] = <<>>)

\* A resource registered while destroy was suspended has been released by
\* that call, and the session is gone.
C36_Witness ==
  /\ ret.op = "addResource" /\ ret.value = <<>>
  /\ ret.arg.sessionId \notin Range(sessions)
  /\ \E t \in Calls :
       /\ tasks[t].live /\ tasks[t].pc = "done" /\ tasks[t].result = "resolved"
       /\ tasks[t].sid = ret.arg.sessionId
       /\ tasks[t].closed # <<>>
       /\ ret.arg.resource.id = tasks[t].released[Len(tasks[t].released)]

\* ------------------------------------------------------------------ claims: launched processes
Spawned == 1..Len(launch.children)
RegisteredFor(p) ==
  /\ launch.children[p].resource # 0
  /\ \E i \in 1..Len(resources[launch.children[p].sid]) :
       resources[launch.children[p].sid][i].id = launch.children[p].resource
Orphan(p) ==
  /\ launch.children[p].returned
  /\ launch.children[p].running
  /\ ~RegisteredFor(p)

\* C37: every child spawned by a launch tool that is still running when the
\* launch request returns is registered as a Resource of its session,
\* however the request interleaves with destroy.
C37_RunningChildIsRegistered == \A p \in Spawned : ~Orphan(p)

\* The same for launch_web_server, which registers before it waits: its
\* child has a Resource from the moment it is spawned.
WebServerChildIsRegistered ==
  \A p \in Spawned : launch.children[p].tool = "launch_web_server" => RegisteredFor(p)

\* And for launch_windows_exe whenever the session outlived the wait.
ExeOrphanOnlyAfterDestroy ==
  \A p \in Spawned : Orphan(p) =>
    /\ launch.children[p].tool = "launch_windows_exe"
    /\ launch.children[p].sid \notin Range(sessions)

\* launch_windows_exe has returned "running" with its child registered.
ExeRegistered ==
  \E p \in Spawned :
    /\ launch.children[p].tool = "launch_windows_exe"
    /\ launch.children[p].returned /\ launch.children[p].running /\ RegisteredFor(p)

\* launch_windows_exe has returned an error and its child runs on, its
\* session destroyed during the wait.
ExeLeftRunning ==
  /\ launch.pc = "done" /\ launch.result = "Failed to launch Windows executable"
  /\ Orphan(LastChild)

\* ------------------------------------------------------------------ claims: isolation
EntriesUnder(m, sessionId) == SelectSeq(m, LAMBDA e : startsWith(e.k, Key(sessionId, NoStr)))

\* All the registry holds for a session: whether it is registered, its
\* resources, its page references, collectors and slot with their keys, and
\* what its scans return.
View(r, res, sessionId) ==
  [live |-> sessionId \in Range(r.sessions),
   resources |-> res[sessionId],
   pageRefs |-> EntriesUnder(r.pageRefs, sessionId),
   collectors |-> [kind \in KindSet |-> EntriesUnder(r.collectors[kind], sessionId)],
   autoCapture |-> getAutoCapture(r, sessionId),
   scans |-> <<getPageRefs(r, sessionId),
               [kind \in KindSet |-> getCollectors(r, kind, sessionId)]>>]

\* The step is a registry operation called for the session, or a step of a
\* destroy call on it: the call whose record changes, the re-keying the
\* event names, or the setter that makes this step.
OnSession(S) ==
  IF tasks' # tasks
  THEN \E t \in TaskIds : tasks'[t] # tasks[t] /\ tasks'[t].sid = S
  ELSE IF last'.op = "rekeyIdentifier"
  THEN last'.sid = S
  ELSE \/ AddResource(S)
       \/ \E ident \in Identifiers : SetPageRef(S, ident, "web", FALSE, FALSE, MaxRefs)
       \/ \E kind \in KindSet, ident \in Identifiers :
            SetCollector(kind, S, ident, MaxPerKind, MaxPerKind)
       \/ \E d \in CaptureData : SetAutoCapture(S, d)
       \/ \E ident \in Identifiers : RemovePageRef(S, ident)

\* C38: an operation called for a session S, a step of destroy(S)
\* included, leaves what the registry holds for every other session T as it
\* was: whether T is registered, its resources, its page references,
\* collectors and slot, and what its scans return; and the scans of two
\* sessions share no object.
C38_SessionsAreIsolated ==
  /\ [][\A S \in AllIds, T \in AllIds :
          (S # T /\ OnSession(S)) =>
             View(Registry', resources', T) = View(Registry, resources, T)]_vars
  /\ [](\A S \in AllIds, T \in AllIds :
          S # T => ObjectsUnder(Registry, S) \cap ObjectsUnder(Registry, T) = {})

\* The first session is destroyed, a resource of it released; the second
\* has its page reference, collector, slot and resource, and is
\* registered.
C38_Witness ==
  /\ sessions = <<UUID(2)>>
  /\ \E t \in TaskIds : tasks[t].live /\ tasks[t].pc = "done" /\ tasks[t].sid = UUID(1)
                          /\ tasks[t].released # <<>>
  /\ getPageRefs(Registry, UUID(2)) # <<>>
  /\ getCollectors(Registry, "consoleCollectors", UUID(2)) # <<>>
  /\ getAutoCapture(Registry, UUID(2)) # Absent
  /\ resources[UUID(2)] # <<>>
  /\ resources[UUID(1)] # <<>>

\* ------------------------------------------------------------------ claims: network timing
\* C39: every response or failure whose request event the collector
\* observed gets a defined duration measured from that request's own start,
\* also when several requests with the same method and URL are in flight.
C39_DurationFromOwnStart ==
  [][\A n \in 1..Len(net.entries') :
          (n > Len(net.entries) /\ net.requests[net.entries'[n].request].observed)
            => /\ net.entries'[n].durationMs.defined
               /\ net.entries'[n].durationMs.ms
                 = net.now - net.requests[net.entries'[n].request].start]_vars

\* The same for requests that had no request of the same method and URL in
\* flight beside them.
DurationFromOwnStartWhenAlone ==
  [][\A n \in 1..Len(net.entries') :
       (/\ n > Len(net.entries)
        /\ net.requests[net.entries'[n].request].observed
        /\ ~net.requests[net.entries'[n].request].crowded)
         => /\ net.entries'[n].durationMs.defined
            /\ net.entries'[n].durationMs.ms
                 = net.now - net.requests[net.entries'[n].request].start]_vars

\* Two requests for one URL, both observed: the first to be answered was
\* timed from the start of the second, the second got no duration.
SecondStartUsed ==
  \E n \in 1..Len(net.entries), k \in 1..Len(net.entries) :
    LET first == net.entries[n]
        second == net.entries[k]
    IN /\ n < k /\ first.key = second.key
       /\ net.requests[first.request].observed /\ net.requests[second.request].observed
       /\ first.request < second.request
       /\ net.requests[second.request].start > net.requests[first.request].start
       /\ first.durationMs.defined
       /\ first.durationMs.ms < net.now - net.requests[first.request].start
       /\ ~second.durationMs.defined

\* A request observed alone has been answered and timed.
TimedAlone ==
  \E n \in 1..Len(net.entries) :
    /\ net.requests[net.entries[n].request].observed
    /\ ~net.requests[net.entries[n].request].crowded
    /\ net.entries[n].durationMs.defined /\ net.entries[n].durationMs.ms = 2

\* ------------------------------------------------------------------ claims: resolver round trip
\* The identifiers getActivePage reports for the session lead back, through
\* getPageRef, to the page references they were reported for.
RoundTrip(sessionId) ==
  LET refs == getPageRefs(Registry, sessionId) IN
  \A i \in 1..Len(refs) :
    getPageRef(Registry, sessionId, identifierOf(refs[i])) = refs[i]

\* C40: in every state the tools reach, each identifier getActivePage
\* returns on auto-select or lists as available is a key under which
\* getPageRef returns that same page reference: a web page reference under
\* (S, id) has url = id, and the electron one is under "electron".
C40_ResolverRoundTrip ==
  \A sessionId \in Range(sessions) :
    /\ RoundTrip(sessionId)
    /\ LET res == getActivePage(Registry, sessionId, NoStr) IN
       /\ res.success => getPageRef(Registry, sessionId, res.identifier) = res.ref
       /\ \A j \in 1..Len(res.available) :
            getPageRef(Registry, sessionId, res.available[j]) = getPageRefs(Registry, sessionId)[j]

\* Every web page reference is stored under its session and its url.
RoundTripOfWebPages ==
  \A i \in 1..Len(pageRefs) :
    pageRefs[i].v.type = "web" =>
      \E sessionId \in Range(sessions) :
        pageRefs[i].k = Key(sessionId, pageRefs[i].v.url)

\* A workflow navigate step moved the electron window under a URL.
ElectronUnderAUrl ==
  /\ last.op = "workflowNavigate"
  /\ \E i \in 1..Len(pageRefs) :
       /\ pageRefs[i].v.type = "electron"
       /\ \E sessionId \in Range(sessions) : pageRefs[i].k = Key(sessionId, pageRefs[i].v.url)

\* A web page followed a navigation of the navigate tool and is found under
\* its new URL.
WebPageFollowedNavigate ==
  /\ \E t \in TaskIds : navs[t].result = "ok"
  /\ last.op = "other"
  /\ Len(pageRefs) = 1
  /\ pageRefs[1].v.type = "web"
  /\ \E sessionId \in Range(sessions) :
       /\ pageRefs[1].k = Key(sessionId, pageRefs[1].v.url)
       /\ getActivePage(Registry, sessionId, NoStr).identifier = pageRefs[1].v.url

====
